---- MODULE Spec2Model ----
(***************************************************************************)
(* Scan execution core of as/src/base/scan.c as a state machine: one scan  *)
(* job (basic, aggregation, udf-bg or ops-bg), the worker threads that run *)
(* its partition slices, the client socket of a streaming job and the      *)
(* sub-transactions of a background job.  The scan manager                 *)
(* (base/scan_manager.c, base/scan_job.c) is not part of the source under  *)
(* study; its operations are modelled from the specification text.         *)
(***************************************************************************)
EXTENDS Integers, Sequences, FiniteSets, TLC

\* ------------------------------------------------------------------ bounds

\* Worker threads of the manager's pool.
NWorkers == 2
\* Partitions of the namespace (AS_PARTITIONS scaled down from 4096).
NPids == 2
\* Largest number of index entries in one partition tree.
MaxRecs == 2
\* Number of abort_job calls the environment issues.
MaxAborts == 2
\* SCAN_CHUNK_LIMIT scaled down from 1 MiB to a number of buffered items.
ChunkItems == 1
\* MAX_ACTIVE_TRANSACTIONS scaled down from 200.
MaxActive == 1
\* as_exchange_cluster_size(): nodes in the cluster.
ClusterSize == 1

\* ------------------------------------------------------- program constants

SAMPLE_MARGIN == 4

Workers == 1..NWorkers
Pids == 0..(NPids - 1)

\* The manager's thread (runs finish and destroy) as a writer id.
MGR == 0

\* Result and abandonment codes (0 is AS_OK: not abandoned).
AS_OK == "OK"
AS_ERR_UNKNOWN == "UNKNOWN"
AS_ERR_NOT_FOUND == "NOT_FOUND"
AS_ERR_FILTERED_OUT == "FILTERED_OUT"
AS_ERR_UNAVAILABLE == "UNAVAILABLE"
AS_ERR_CLUSTER_KEY_MISMATCH == "CLUSTER_KEY_MISMATCH"
AS_SCAN_ERR_USER_ABORT == "USER_ABORT"
AS_SCAN_ERR_RESPONSE_ERROR == "RESPONSE_ERROR"
AS_SCAN_ERR_RESPONSE_TIMEOUT == "RESPONSE_TIMEOUT"
AS_ERR_PARAMETER == "PARAMETER"
AS_ERR_FORBIDDEN == "AS_ERR_FORBIDDEN"
AS_ERR_UNSUPPORTED_FEATURE == "UNSUPPORTED_FEATURE"

\* Rate given to a low-priority scan of an old client.
LOW_PRIORITY_RPS == 5000

\* scan_type
SCAN_TYPE_BASIC == "basic"
SCAN_TYPE_AGGR == "aggregation"
SCAN_TYPE_UDF_BG == "background-udf"
SCAN_TYPE_OPS_BG == "background-ops"

\* rsv->tree == NULL: the partition is not mastered by this node.
NoTree == <<"NULL">>

\* Kinds of index entry, by the first test of a reduce callback that
\* disposes of them: a live qualifying record, a tombstone, a record of
\* another set, a doomed record, a record the metadata predicate rejects,
\* a record the bin predicate rejects, a record whose bins do not load.
RecKinds == {"ok", "tomb", "xset", "doomed", "metaF", "binF", "unread"}

VARIABLES
    \* request / job configuration, fixed once the job is built
    type, pids_given, job_set, tree, fail_on_cluster_change,
    job_cluster_key, no_bin_data, predexp, sample_pct, sample_max,
    max_per_partition,
    \* as_scan_job
    abandoned, n_succeeded, n_failed, n_filtered_meta, n_filtered_bins,
    \* conn_scan_job
    fd_h, fd_lock,
    \* basic_scan_job
    sample_count,
    \* udf_bg_scan_job / ops_bg_scan_job
    n_active_tr,
    \* scan manager and namespace
    jstate, todo, n_aborts, ns_stat, fin_code,
    \* environment: exchange, client socket, transaction service
    cluster_key, sock, wire, writers, tr_queue, tr_mid,
    \* worker threads: position in slice code and slice locals
    pc, wpid, pos, bb, ret, reason, ll, nval, slice_limit, slice_count,
    \* observations
    n_release, use_after_release, fin_sent, force_closed, disowned,
    n_enqueued, n_not_found, uaf, n_user_abort,
    \* the start function: its return value and tr->from.proto_fd_h != NULL
    start_result, tr_proto_fd_h,
    \* per callback: index references held (r_ref) and storage handles
    \* open (rd)
    r_ref, rd_open,
    \* the request (tr->msgp and its fields), the configuration the start
    \* functions read (g_config, ns), and what start derives from them:
    \* _job->rps and the flags of job->origin.msgp
    tr_msg, ns_cfg, job_rps, origin_msgp,
    \* cf_free calls on the array that get_scan_pids allocated
    pids_frees

cfgv == <<type, pids_given, job_set, tree, fail_on_cluster_change,
          job_cluster_key, no_bin_data, predexp, sample_pct, sample_max,
          max_per_partition>>
cntv == <<n_succeeded, n_failed, n_filtered_meta, n_filtered_bins>>
mgrv == <<jstate, todo, ns_stat, fin_code>>
sockv == <<fd_h, sock, wire, writers, n_release, use_after_release,
           fin_sent, force_closed, disowned>>
trv == <<n_active_tr, tr_queue, tr_mid, n_enqueued, n_not_found, uaf>>
slicev == <<wpid, pos, bb, ret, reason, ll, nval, slice_limit,
            slice_count>>

startv == <<start_result, tr_proto_fd_h>>
resv == <<r_ref, rd_open>>
reqv == <<tr_msg, ns_cfg, job_rps, origin_msgp, pids_frees>>

vars == <<cfgv, cntv, mgrv, sockv, trv, slicev, pc, abandoned, fd_lock,
          sample_count, cluster_key, n_aborts, n_user_abort, startv,
          resv, reqv>>

\* ------------------------------------------------- records and predicates

Min(S) == CHOOSE x \in S : \A y \in S : x <= y

\* as_record_is_live(r): not a tombstone.
as_record_is_live(r) == r # "tomb"

\* get_scan_set(tr, ns, set_name, &set_id): the request has no SET field or
\* an empty one (no set filter: set_id INVALID_SET_ID, empty set_name), or
\* names a set that exists, or one that does not (set_id INVALID_SET_ID
\* with the name kept).
get_scan_set(set_field, set_exists) ==
    IF set_field \in {"absent", "empty"} THEN "none"
    ELSE IF set_exists THEN "known" ELSE "unknown"

\* get_scan_options / get_scan_pids / get_scan_sample_max / get_scan_rps /
\* get_scan_socket_timeout: each fails on a field of the wrong size (pids:
\* also on a bad or duplicate pid); get_scan_set fails on a set name that
\* is too long. parsed: the fields this start function looks at.
msg_field_processing_fails(msg, parsed) ==
    msg.set_field = "toolong" \/ msg.bad_field \in parsed

\* Only basic_scan_job_start calls get_scan_pids, after get_scan_set and
\* get_scan_options have passed.
get_scan_pids_called(t, msg) ==
    /\ t = SCAN_TYPE_BASIC
    /\ msg.set_field # "toolong" /\ msg.bad_field # "options"

\* get_scan_pids(tr, &pids): the number of arrays it allocates with
\* cf_calloc (none without a PID_ARRAY or DIGEST_ARRAY field) ...
get_scan_pids_allocs(t, msg) ==
    IF get_scan_pids_called(t, msg) /\ msg.pids_field # "absent"
    THEN 1 ELSE 0

\* ... and the number it frees itself, when it fails on an array that is
\* too big or holds a bad or duplicate pid.
get_scan_pids_frees(t, msg) ==
    IF get_scan_pids_allocs(t, msg) = 1 /\ msg.bad_field = "pids"
    THEN 1 ELSE 0

\* _job->pids != NULL: as_scan_job_init was handed the array.
job_pids(t, msg) ==
    get_scan_pids_allocs(t, msg) - get_scan_pids_frees(t, msg)

\* get_scan_rps(tr, &rps): the RECS_PER_SEC field, 0 when there is none.
get_scan_rps(msg) == msg.rps

\* convert_old_priority(old_priority, &rps): the value of *rps afterwards.
convert_old_priority(old_priority, rps) ==
    IF old_priority # 0 /\ rps # 0 THEN rps
    ELSE IF old_priority = 1 /\ rps = 0 THEN LOW_PRIORITY_RPS
    ELSE rps

\* validate_background_scan_rps(ns, &rps): whether it passes, and *rps
\* afterwards.
validate_background_scan_rps(rps) ==
    IF rps > ns_cfg.background_scan_max_rps
    THEN [ok |-> FALSE, rps |-> rps]
    ELSE [ok |-> TRUE,
          rps |-> IF rps = 0 THEN ns_cfg.background_scan_max_rps ELSE rps]

\* A validation that accepts a request with the READ bit.
ops_bg_validate_ops_any_info1(msg) == msg.n_ops # 0

\* ops_bg_validate_ops(m) != NULL
ops_bg_validate_ops(msg) == ~msg.info1_read /\ msg.n_ops # 0

\* How a start function leaves: the code it returns (AS_OK: it goes on to
\* hand the job to the manager) and whether as_scan_job_init has run, so
\* that a failure destroys the job.
StartExit(code, built) == [code |-> code, built |-> built]

\* basic_scan_job_start up to conn_scan_job_own_fd.
basic_scan_job_start_exit(msg) ==
    IF msg_field_processing_fails(msg,
           {"options", "pids", "sample_max", "rps", "timeout"})
    THEN StartExit(AS_ERR_PARAMETER, FALSE)
    ELSE IF msg.pids_field = "absent"
            /\ get_scan_set(msg.set_field, msg.set_exists) = "unknown"
    THEN StartExit(AS_ERR_NOT_FOUND, FALSE)
    ELSE IF msg.predexp_field = "bad"
    THEN StartExit(AS_ERR_PARAMETER, FALSE)
    ELSE IF ~msg.bin_names_ok
    THEN StartExit(AS_ERR_PARAMETER, TRUE)
    ELSE IF fail_on_cluster_change /\ ns_cfg.migrating
    THEN StartExit(AS_ERR_CLUSTER_KEY_MISMATCH, TRUE)
    ELSE StartExit(AS_OK, TRUE)

\* An aggregation start that builds the predicate as the other variants do.
aggr_has_predexp_builds(msg) == msg.predexp_field = "bad"

\* as_transaction_has_predexp(tr) in aggr_scan_job_start.
aggr_has_predexp(msg) == msg.predexp_field # "absent"

\* aggr_scan_job_start up to conn_scan_job_own_fd; it reads neither the
\* PID_ARRAY nor the DIGEST_ARRAY nor the SAMPLE_MAX field.
aggr_scan_job_start_exit(msg) ==
    IF ns_cfg.udf_execution_disabled
    THEN StartExit(AS_ERR_FORBIDDEN, FALSE)
    ELSE IF msg_field_processing_fails(msg, {"options", "rps", "timeout"})
    THEN StartExit(AS_ERR_PARAMETER, FALSE)
    ELSE IF get_scan_set(msg.set_field, msg.set_exists) = "unknown"
    THEN StartExit(AS_ERR_NOT_FOUND, FALSE)
    ELSE IF aggr_has_predexp(msg)
    THEN StartExit(AS_ERR_UNSUPPORTED_FEATURE, FALSE)
    ELSE IF ~msg.def_ok
    THEN StartExit(AS_ERR_PARAMETER, TRUE)
    ELSE StartExit(AS_OK, TRUE)

\* udf_bg_scan_job_start up to as_scan_manager_start_job.
udf_bg_scan_job_start_exit(msg) ==
    IF ns_cfg.udf_execution_disabled
    THEN StartExit(AS_ERR_FORBIDDEN, FALSE)
    ELSE IF msg_field_processing_fails(msg, {"options", "rps"})
    THEN StartExit(AS_ERR_PARAMETER, FALSE)
    ELSE IF get_scan_set(msg.set_field, msg.set_exists) = "unknown"
    THEN StartExit(AS_ERR_NOT_FOUND, FALSE)
    ELSE IF ~validate_background_scan_rps(
                convert_old_priority(msg.priority, get_scan_rps(msg))).ok
    THEN StartExit(AS_ERR_PARAMETER, FALSE)
    ELSE IF msg.predexp_field = "bad"
    THEN StartExit(AS_ERR_PARAMETER, FALSE)
    ELSE IF ~msg.def_ok
    THEN StartExit(AS_ERR_PARAMETER, TRUE)
    ELSE StartExit(AS_OK, TRUE)

\* ops_bg_scan_job_start up to as_scan_manager_start_job.
ops_bg_scan_job_start_exit(msg) ==
    IF msg_field_processing_fails(msg, {"options", "rps"})
    THEN StartExit(AS_ERR_PARAMETER, FALSE)
    ELSE IF get_scan_set(msg.set_field, msg.set_exists) = "unknown"
    THEN StartExit(AS_ERR_NOT_FOUND, FALSE)
    ELSE IF ~validate_background_scan_rps(get_scan_rps(msg)).ok
    THEN StartExit(AS_ERR_PARAMETER, FALSE)
    ELSE IF ~ops_bg_validate_ops(msg)
    THEN StartExit(AS_ERR_PARAMETER, FALSE)
    ELSE IF msg.predexp_field = "bad"
    THEN StartExit(AS_ERR_PARAMETER, FALSE)
    ELSE StartExit(AS_OK, TRUE)

\* The rps argument of as_scan_job_init in each start function.
as_scan_job_init_rps(t, msg) ==
    IF t = SCAN_TYPE_OPS_BG
    THEN validate_background_scan_rps(get_scan_rps(msg)).rps
    ELSE IF t = SCAN_TYPE_UDF_BG
    THEN validate_background_scan_rps(
             convert_old_priority(msg.priority, get_scan_rps(msg))).rps
    ELSE convert_old_priority(msg.priority, get_scan_rps(msg))

\* job->origin.msgp before it is created.
NoMsg == [info2_write |-> FALSE, info2_durable_delete |-> FALSE,
          info3_update_only |-> FALSE, info3_replace_only |-> FALSE]

\* udf_bg_scan_job_start: info2 of as_msg_create_internal, info3 0.
udf_bg_origin_msgp(msg) ==
    [info2_write |-> TRUE,
     info2_durable_delete |-> msg.info2_durable_delete,
     info3_update_only |-> FALSE, info3_replace_only |-> FALSE]

\* A template that takes UPDATE_ONLY from the request.
ops_bg_origin_msgp_carries_update_only(msg) ==
    [info2_write |-> TRUE,
     info2_durable_delete |-> msg.info2_durable_delete,
     info3_update_only |-> msg.info3_update_only,
     info3_replace_only |-> msg.info3_replace_only]

\* ops_bg_scan_job_start: info2 and info3 of as_msg_create_internal.
ops_bg_origin_msgp(msg) ==
    [info2_write |-> TRUE,
     info2_durable_delete |-> msg.info2_durable_delete,
     info3_update_only |-> TRUE,
     info3_replace_only |-> msg.info3_replace_only]

\* A set test that excludes nothing.
excluded_set_never(r) == FALSE

\* excluded_set(r, set_id): the job has a set filter and the record is of
\* another set.
excluded_set(r) == job_set = "known" /\ r = "xset"

\* as_record_is_doomed(r, ns)
as_record_is_doomed(r) == r = "doomed"

\* predexp_matches_metadata(): PREDEXP_TRUE / PREDEXP_FALSE / PREDEXP_UNKNOWN.
predexp_matches_metadata(r) ==
    IF r = "metaF" THEN "PREDEXP_FALSE"
    ELSE IF r = "binF" THEN "PREDEXP_UNKNOWN" ELSE "PREDEXP_TRUE"

\* basic_scan_predexp_filter_meta(job, r, &predexp): pass tells whether the
\* record passes the metadata filter, pending whether the caller must still
\* apply the predicate to the bins.
basic_scan_predexp_filter_meta(r) ==
    IF ~predexp THEN [pass |-> TRUE, pending |-> FALSE]
    ELSE IF predexp_matches_metadata(r) = "PREDEXP_UNKNOWN"
         THEN [pass |-> TRUE, pending |-> TRUE]
         ELSE [pass |-> predexp_matches_metadata(r) = "PREDEXP_TRUE",
               pending |-> FALSE]

\* A bin predicate that rejects nothing.
predexp_read_and_filter_bins_never_fails(r) == FALSE

\* predexp_read_and_filter_bins(&rd, predexp) != 0
predexp_read_and_filter_bins_fails(r) == r = "binF"

\* as_storage_rd_load_bins(&rd, stack_bins) < 0
as_storage_rd_load_bins_fails(r) == r = "unread"

\* as_index_reduce_from[_live]: the first index entry after position from
\* that the iteration hands to the callback (0: none left).
NextIdx(t, from, live_only) ==
    LET S == {i \in (from + 1)..Len(t) : ~live_only \/ as_record_is_live(t[i])}
    IN  IF S = {} THEN 0 ELSE Min(S)

\* Items of a response buffer.
RecItem(p, i) == <<"rec", p, i>>
PidDoneItem(p, code) == <<"pid_done", p, code>>
ValItem(p, k, success) == <<"val", p, k, success>>

\* A buffer builder that puts the new message in front.
as_msg_bufbuilder_in_front(b, item) == <<item>> \o b

\* as_msg_make_response_bufbuilder / as_msg_pid_done_bufbuilder(&bb, ...):
\* the message is added at the end of the buffer.
as_msg_bufbuilder(b, item) == Append(b, item)

\* The calls a reduce callback makes on the record it was handed, in
\* order, on a path that leaves before as_storage_record_open ...
cb_exit_calls == <<"as_record_done">>

\* A path that opens the storage handle and leaves without closing it.
cb_exit_calls_rd_leak == <<"as_storage_record_open", "as_record_done">>

\* ... and on a path that leaves after as_storage_record_open.
cb_exit_calls_rd ==
    <<"as_storage_record_open", "as_storage_record_close", "as_record_done">>

\* Number of calls of function f in a sequence of calls.
CountOf(calls, f) == Cardinality({k \in 1..Len(calls) : calls[k] = f})

\* The index iteration hands worker w's callback a reserved reference
\* (held = 1) and the callback makes the calls: the references it still
\* holds and the storage handles it has open when it returns.
CallbackReturns(w, calls) ==
    /\ r_ref' = [r_ref EXCEPT ![w] = 1 - CountOf(calls, "as_record_done")]
    /\ rd_open' = [rd_open EXCEPT ![w] =
           CountOf(calls, "as_storage_record_open")
               - CountOf(calls, "as_storage_record_close")]

\* The index iteration reserved an entry and invoked worker w's callback,
\* which is past its entry tests.
CallbackEntered(w) ==
    /\ r_ref' = [r_ref EXCEPT ![w] = 1]
    /\ UNCHANGED rd_open

\* -------------------------------------------------------------- manager

\* An abandon_job that overwrites an earlier reason.
as_scan_manager_abandon_job_overwrite(cur, why) == why

\* as_scan_manager_abandon_job(_job, reason): the new value of
\* _job->abandoned.
as_scan_manager_abandon_job(cur, why) == IF cur = AS_OK THEN why ELSE cur

\* Every tuple of the job has been processed.
AllSlicesDone == todo = {} /\ \A w \in Workers : pc[w] = "idle"

\* The slice function returned: the worker releases the reservation and goes
\* back to the pool.
SliceReturn(w) ==
    /\ pc' = [pc EXCEPT ![w] = "idle"]
    /\ bb' = [bb EXCEPT ![w] = <<>>]
    /\ pos' = [pos EXCEPT ![w] = 0]
    /\ ll' = [ll EXCEPT ![w] = 0]
    /\ nval' = [nval EXCEPT ![w] = 0]
    /\ slice_limit' = [slice_limit EXCEPT ![w] = 0]
    /\ slice_count' = [slice_count EXCEPT ![w] = 0]
    /\ ret' = [ret EXCEPT ![w] = "none"]
    /\ reason' = [reason EXCEPT ![w] = AS_OK]
    /\ UNCHANGED wpid

\* conn_scan_job_own_fd(job, fd_h, timeout, compress): the job takes the
\* transaction's file handle and initialises fd_lock.
conn_scan_job_own_fd ==
    /\ fd_h' = TRUE
    /\ fd_lock' = 0

\* A disown_fd that closes the socket it gives back.
conn_scan_job_disown_fd_closes ==
    /\ disowned' = TRUE
    /\ sock' = "closed"
    /\ n_release' = n_release + 1
    /\ force_closed' = TRUE
    /\ UNCHANGED wire

\* conn_scan_job_disown_fd(job): destroys fd_lock and nothing more; the
\* socket is not touched.
conn_scan_job_disown_fd ==
    /\ disowned' = TRUE
    /\ UNCHANGED <<sock, wire, n_release, force_closed>>

\* as_scan_manager_start_job(_job) for a streaming job, called at the end of
\* basic_scan_job_start / aggr_scan_job_start after conn_scan_job_own_fd:
\* admitted, or refused (duplicate trid, concurrency cap), and then start
\* disowns the fd and destroys the job.
conn_scan_job_start ==
    /\ jstate = "new"
    /\ type \in {SCAN_TYPE_BASIC, SCAN_TYPE_AGGR}
    /\ conn_scan_job_own_fd
    /\ \E result \in {AS_OK, "AS_ERR_FORBIDDEN"} :
        /\ start_result' = result
        /\ IF result = AS_OK
           THEN /\ jstate' = "active"
                /\ todo' = Pids
                /\ UNCHANGED <<sock, wire, n_release, force_closed,
                               disowned>>
           ELSE /\ conn_scan_job_disown_fd
                /\ jstate' = "rejected"
                /\ todo' = {}
        /\ pids_frees' = IF result = AS_OK THEN pids_frees
                         ELSE pids_frees + job_pids(type, tr_msg)
    /\ job_rps' = as_scan_job_init_rps(type, tr_msg)
    /\ UNCHANGED <<tr_proto_fd_h, resv, tr_msg, ns_cfg, origin_msgp>>
    /\ UNCHANGED <<cfgv, cntv, trv, slicev, pc, abandoned,
                   sample_count, cluster_key, n_aborts, n_user_abort,
                   ns_stat, fin_code, writers, use_after_release, fin_sent>>

\* A worker takes the next (job, pid) tuple and reserves the partition; a
\* partition that is not mastered is skipped for a legacy scan and handed to
\* the slice function with no tree for a per-partition scan.
Dispatch(w) ==
    /\ jstate = "active"
    /\ pc[w] = "idle"
    /\ \E p \in todo :
        /\ todo' = todo \ {p}
        /\ IF tree[p] = NoTree /\ ~pids_given
           THEN UNCHANGED <<pc, wpid>>
           ELSE /\ pc' = [pc EXCEPT ![w] = "slice"]
                /\ wpid' = [wpid EXCEPT ![w] = p]
    /\ UNCHANGED <<startv, resv, reqv>>
    /\ UNCHANGED <<cfgv, cntv, sockv, trv, pos, bb, ret, reason, ll, nval,
                   slice_limit, slice_count, abandoned, fd_lock,
                   sample_count, cluster_key, n_aborts, n_user_abort,
                   jstate, ns_stat, fin_code>>

\* as_scan_manager_abort_job(trid): user abort of the active job.
as_scan_manager_abort_job ==
    /\ jstate \in {"active", "fin_write", "finish"}
    /\ n_aborts < MaxAborts
    /\ n_aborts' = n_aborts + 1
    /\ abandoned' = as_scan_manager_abandon_job(abandoned, AS_SCAN_ERR_USER_ABORT)
    /\ n_user_abort' = IF abandoned' # abandoned
                       THEN n_user_abort + 1 ELSE n_user_abort
    /\ UNCHANGED <<startv, resv, reqv>>
    /\ UNCHANGED <<cfgv, cntv, mgrv, sockv, trv, slicev, pc, fd_lock,
                   sample_count, cluster_key>>

\* The exchange subsystem installs a new cluster key.
ClusterKeyChange ==
    /\ jstate = "active"
    /\ fail_on_cluster_change
    /\ cluster_key = job_cluster_key
    /\ cluster_key' = cluster_key + 1
    /\ UNCHANGED <<startv, resv, reqv>>
    /\ UNCHANGED <<cfgv, cntv, mgrv, sockv, trv, slicev, pc, abandoned,
                   fd_lock, sample_count, n_aborts, n_user_abort>>

\* as_scan_job_destroy(_job) after finish: the variant's destroy, then
\* the pids array and the job are freed.
as_scan_job_destroy ==
    /\ jstate = "finished"
    /\ jstate' = "destroyed"
    /\ pids_frees' = pids_frees + job_pids(type, tr_msg)
    /\ UNCHANGED <<startv, resv, tr_msg, ns_cfg, job_rps, origin_msgp>>
    /\ UNCHANGED <<cfgv, cntv, sockv, trv, slicev, pc, abandoned, fd_lock,
                   sample_count, cluster_key, n_aborts, n_user_abort, todo,
                   ns_stat, fin_code>>

\* The switch on _job->abandoned at the end of every finish function.
FinishStat(code) ==
    IF code = AS_OK THEN "complete"
    ELSE IF code = AS_SCAN_ERR_USER_ABORT THEN "abort" ELSE "error"

\* The namespace's scan counters: ns->n_scan_<variant>_<complete | abort |
\* error>, none incremented yet.
ScanTypes == {SCAN_TYPE_BASIC, SCAN_TYPE_AGGR, SCAN_TYPE_UDF_BG,
              SCAN_TYPE_OPS_BG}
StatKinds == {"complete", "abort", "error"}
NsStatZero == [k \in ScanTypes \X StatKinds |-> 0]

\* A finish that counts every job as a basic scan.
ns_counter_basic_only(t, code) == <<SCAN_TYPE_BASIC, FinishStat(code)>>

\* The counter a finish function increments: the one of its own variant
\* that the switch selects.
ns_counter(t, code) == <<t, FinishStat(code)>>

\* ------------------------------------------------------- conn_scan_job

\* conn_scan_job_release_fd that forgets job->fd_h = NULL.
conn_scan_job_release_fd_keeps_fd_h(force_close) ==
    /\ sock' = IF force_close THEN "closed" ELSE "released"
    /\ fd_h' = fd_h
    /\ n_release' = n_release + 1
    /\ force_closed' = (force_closed \/ force_close)

\* conn_scan_job_release_fd(job, force_close)
conn_scan_job_release_fd(force_close) ==
    /\ sock' = IF force_close THEN "closed" ELSE "released"
    /\ fd_h' = FALSE
    /\ n_release' = n_release + 1
    /\ force_closed' = (force_closed \/ force_close)

\* A send_response that does not wait for fd_lock.
cf_mutex_lock_fd_no_wait == TRUE

\* cf_mutex_lock(&job->fd_lock): the caller gets the mutex when it is free.
cf_mutex_lock_fd == fd_lock = 0

\* conn_scan_job_send_response returned ok to its caller, which goes on:
\* the basic reduce callback and aggr_scan_add_val_response reset the buffer
\* after a successful send and keep it otherwise; a slice's last flush ends
\* the slice.
SendReturn(w, ok) ==
    IF ret[w] = "cb"
    THEN /\ pc' = [pc EXCEPT ![w] = "reduce"]
         /\ bb' = [bb EXCEPT ![w] = IF ok THEN <<>> ELSE @]
         /\ ret' = [ret EXCEPT ![w] = "none"]
         /\ reason' = [reason EXCEPT ![w] = AS_OK]
         /\ UNCHANGED <<wpid, pos, ll, nval, slice_limit, slice_count>>
    ELSE IF ret[w] \in {"val", "val_err"}
    THEN /\ pc' = [pc EXCEPT ![w] = IF ret[w] = "val" THEN "aggr_process"
                                   ELSE "aggr_abandon"]
         /\ bb' = [bb EXCEPT ![w] = IF ok THEN <<>> ELSE @]
         /\ ret' = [ret EXCEPT ![w] = "none"]
         /\ reason' = [reason EXCEPT ![w] = AS_OK]
         /\ UNCHANGED <<wpid, pos, ll, nval, slice_limit, slice_count>>
    ELSE SliceReturn(w)

\* conn_scan_job_send_response, up to the socket write: take fd_lock; with
\* no fd left, unlock and return false; else start the blocking write.
conn_scan_job_send_response(w) ==
    /\ pc[w] = "send"
    /\ cf_mutex_lock_fd
    /\ IF ~fd_h
       THEN /\ fd_lock' = 0
            /\ SendReturn(w, FALSE)
            /\ UNCHANGED <<sockv>>
       ELSE /\ fd_lock' = w
            /\ pc' = [pc EXCEPT ![w] = "send_write"]
            /\ writers' = writers \cup {w}
            /\ use_after_release' = (use_after_release \/ sock # "open")
            /\ UNCHANGED <<slicev, fd_h, sock, wire, n_release, fin_sent,
                           force_closed, disowned>>
    /\ UNCHANGED <<startv, resv, reqv>>
    /\ UNCHANGED <<cfgv, cntv, mgrv, trv, abandoned, sample_count,
                   cluster_key, n_aborts, n_user_abort>>

\* send_blocking_response_chunk returns: the whole chunk was written, or the
\* write failed (errno ETIMEDOUT or another error) and send_response
\* force-closes the fd and unlocks.
send_blocking_response_chunk(w) ==
    /\ pc[w] = "send_write"
    /\ writers' = writers \ {w}
    /\ fd_lock' = 0
    /\ \E errno \in {"0", "EPIPE", "ETIMEDOUT"} :
        IF errno = "0"
        THEN /\ wire' = Append(wire, <<"chunk", bb[w]>>)
             /\ SendReturn(w, TRUE)
             /\ UNCHANGED <<fd_h, sock, n_release, force_closed>>
        ELSE /\ conn_scan_job_release_fd(TRUE)
             /\ reason' = [reason EXCEPT ![w] =
                    IF errno = "ETIMEDOUT" THEN AS_SCAN_ERR_RESPONSE_TIMEOUT
                    ELSE AS_SCAN_ERR_RESPONSE_ERROR]
             /\ pc' = [pc EXCEPT ![w] = "send_abandon"]
             /\ UNCHANGED <<wire, wpid, pos, bb, ret, ll, nval, slice_limit,
                            slice_count>>
    /\ use_after_release' = (use_after_release \/ sock # "open")
    /\ UNCHANGED <<startv, resv, reqv>>
    /\ UNCHANGED <<cfgv, cntv, mgrv, trv, abandoned, sample_count,
                   cluster_key, n_aborts, n_user_abort, fin_sent, disowned>>

\* A send_response that returns false after a failed write without
\* abandoning the job.
conn_scan_job_send_abandon_skipped(w) ==
    /\ pc[w] = "send_abandon"
    /\ SendReturn(w, FALSE)
    /\ UNCHANGED <<startv, resv, reqv>>
    /\ UNCHANGED <<cfgv, cntv, mgrv, sockv, trv, fd_lock, sample_count,
                   cluster_key, n_aborts, n_user_abort, abandoned>>

\* conn_scan_job_send_response after a failed write and the unlock:
\* as_scan_manager_abandon_job(_job, reason); return false.
conn_scan_job_send_abandon(w) ==
    /\ pc[w] = "send_abandon"
    /\ abandoned' = as_scan_manager_abandon_job(abandoned, reason[w])
    /\ SendReturn(w, FALSE)
    /\ UNCHANGED <<startv, resv, reqv>>
    /\ UNCHANGED <<cfgv, cntv, mgrv, sockv, trv, fd_lock, sample_count,
                   cluster_key, n_aborts, n_user_abort>>

\* A fin that always reports success.
fin_result_code_ok == AS_OK

\* conn_scan_job_finish: the result code argument of
\* as_msg_send_fin_timeout, _job->abandoned as read at the call.
fin_result_code == abandoned

\* conn_scan_job_finish, up to the fin write: with the fd still live, start
\* as_msg_send_fin_timeout carrying _job->abandoned.
conn_scan_job_finish ==
    /\ jstate = "active"
    /\ type \in {SCAN_TYPE_BASIC, SCAN_TYPE_AGGR}
    /\ AllSlicesDone
    /\ IF fd_h
       THEN /\ jstate' = "fin_write"
            /\ fin_code' = fin_result_code
            /\ writers' = writers \cup {MGR}
            /\ use_after_release' = (use_after_release \/ sock # "open")
       ELSE /\ jstate' = "finish"
            /\ UNCHANGED <<fin_code, writers, use_after_release>>
    /\ UNCHANGED <<startv, resv, reqv>>
    /\ UNCHANGED <<cfgv, cntv, trv, slicev, pc, abandoned, fd_lock,
                   sample_count, cluster_key, n_aborts, n_user_abort, todo,
                   ns_stat, fd_h, sock, wire, n_release, fin_sent,
                   force_closed, disowned>>

\* as_msg_send_fin_timeout returns the size sent (0: the write failed) and
\* conn_scan_job_finish releases the fd, force-closing it after a failure.
as_msg_send_fin_timeout ==
    /\ jstate = "fin_write"
    /\ jstate' = "finish"
    /\ writers' = writers \ {MGR}
    /\ \E size_sent \in {0, 1} :
        /\ wire' = IF size_sent # 0 THEN Append(wire, <<"fin", fin_code>>)
                   ELSE wire
        /\ fin_sent' = (size_sent # 0)
        /\ conn_scan_job_release_fd(size_sent = 0)
    /\ UNCHANGED <<startv, resv, reqv>>
    /\ UNCHANGED <<cfgv, cntv, trv, slicev, pc, abandoned, fd_lock,
                   sample_count, cluster_key, n_aborts, n_user_abort, todo,
                   ns_stat, fin_code, use_after_release, disowned>>

\* basic_scan_job_finish / aggr_scan_job_finish after conn_scan_job_finish:
\* the namespace counter chosen by _job->abandoned.
conn_scan_job_finish_stat ==
    /\ jstate = "finish"
    /\ type \in {SCAN_TYPE_BASIC, SCAN_TYPE_AGGR}
    /\ jstate' = "finished"
    /\ ns_stat' = [ns_stat EXCEPT ![ns_counter(type, abandoned)] = @ + 1]
    /\ UNCHANGED <<startv, resv, reqv>>
    /\ UNCHANGED <<cfgv, cntv, sockv, trv, slicev, pc, abandoned, fd_lock,
                   sample_count, cluster_key, n_aborts, n_user_abort, todo,
                   fin_code>>

\* ------------------------------------------------------ basic_scan_job

\* sample_max_init(job, sample_max): job->max_per_partition.
sample_max_init(smax, n_pids_requested) ==
    IF smax = 0 THEN 0
    ELSE LET n_pids == IF n_pids_requested = 0 THEN NPids \div ClusterSize
                       ELSE n_pids_requested
         IN  ((smax + n_pids - 1) \div n_pids) + SAMPLE_MARGIN

\* A choice of the reduce that looks at sample_pct first.
BasicLiveOnly_pct_first == sample_pct = 100

\* basic_scan_job_slice uses as_index_reduce_from (tombstones included) only
\* for percent sampling.
BasicLiveOnly == max_per_partition # 0 \/ sample_pct = 100

\* A percent limit rounded up.
pct_limit_rounded_up(size) == (size * sample_pct + 99) \div 100

\* basic_scan_job_slice's slice.limit for percent sampling:
\* (as_index_tree_size(rsv->tree) * job->sample_pct) / 100.
pct_limit(size) == (size * sample_pct) \div 100

\* A reduce callback that never looks at _job->abandoned.
job_abandoned_never == FALSE

\* The reduce callbacks' first test: _job->abandoned != 0.
job_abandoned == abandoned # AS_OK

\* A reduce callback that never compares the cluster keys.
cluster_key_mismatch_never == FALSE

\* basic_scan_job_reduce_cb's second test: fail_on_cluster_change and the
\* cluster key is no longer the one the job started with.
cluster_key_mismatch ==
    fail_on_cluster_change /\ job_cluster_key # cluster_key

\* A slice that iterates whatever the shared sample count.
sample_count_below_max_ignored == TRUE

\* basic_scan_job_slice's test before the reduce of a sample-max job:
\* job->sample_count < job->sample_max.
sample_count_below_max == sample_count < sample_max

\* basic_scan_job_slice up to the reduce: the per-pid-done chunks of a
\* partition without tree and of an unknown set, else the choice of the
\* sampling mode and of slice.limit.
\* A slice that takes every set name for resolved.
set_name_unresolved_never == FALSE

\* basic_scan_job_slice: _job->set_id == INVALID_SET_ID &&
\* _job->set_name[0] != '\\0', the request named a set the namespace does
\* not have.
set_name_unresolved == job_set = "unknown"

\* A slice that reports every partition as done with OK.
pid_done_result_ok(t) == AS_OK

\* The code of the per-pid-done marker of a slice that returns at once:
\* UNAVAILABLE without a tree, else OK (the set name did not resolve).
pid_done_result(t) == IF t = NoTree THEN AS_ERR_UNAVAILABLE ELSE AS_OK

basic_scan_job_slice(w) ==
    /\ pc[w] = "slice"
    /\ type = SCAN_TYPE_BASIC
    /\ LET p == wpid[w]
           t == tree[p]
           limit == IF max_per_partition = 0 /\ sample_pct # 100
                    THEN pct_limit(Len(t)) ELSE 0
           go == IF max_per_partition # 0 THEN sample_count_below_max
                 ELSE IF sample_pct # 100 THEN limit # 0 ELSE TRUE
       IN  IF t = NoTree \/ set_name_unresolved
           THEN /\ bb' = [bb EXCEPT ![w] =
                                <<PidDoneItem(p, pid_done_result(t))>>]
                /\ pc' = [pc EXCEPT ![w] = "send"]
                /\ ret' = [ret EXCEPT ![w] = "end"]
                /\ UNCHANGED <<slice_limit, slice_count, pos>>
           ELSE /\ bb' = [bb EXCEPT ![w] = <<>>]
                /\ slice_limit' = [slice_limit EXCEPT ![w] = limit]
                /\ slice_count' = [slice_count EXCEPT ![w] = 0]
                /\ pos' = [pos EXCEPT ![w] = 0]
                /\ pc' = [pc EXCEPT ![w] = IF go THEN "reduce"
                                          ELSE "slice_end"]
                /\ UNCHANGED ret
    /\ UNCHANGED <<startv, resv, reqv>>
    /\ UNCHANGED <<cfgv, cntv, mgrv, sockv, trv, wpid, reason, ll, nval,
                   abandoned, fd_lock, sample_count, cluster_key, n_aborts,
                   n_user_abort>>

\* The iteration hands the next index entry to basic_scan_job_reduce_cb,
\* which returns false at once when the job is abandoned, and abandons it
\* when the cluster key changed.
basic_scan_job_reduce(w) ==
    /\ pc[w] = "reduce"
    /\ type = SCAN_TYPE_BASIC
    /\ LET i == NextIdx(tree[wpid[w]], pos[w], BasicLiveOnly)
       IN  IF i = 0
           THEN /\ pc' = [pc EXCEPT ![w] = "slice_end"]
                /\ UNCHANGED <<abandoned, pos, resv>>
           ELSE IF job_abandoned
           THEN /\ pc' = [pc EXCEPT ![w] = "slice_end"]
                /\ CallbackReturns(w, cb_exit_calls)
                /\ UNCHANGED <<abandoned, pos>>
           ELSE IF cluster_key_mismatch
           THEN /\ pc' = [pc EXCEPT ![w] = "slice_end"]
                /\ abandoned' = as_scan_manager_abandon_job(abandoned,
                                    AS_ERR_CLUSTER_KEY_MISMATCH)
                /\ CallbackReturns(w, cb_exit_calls)
                /\ UNCHANGED pos
           ELSE /\ pc' = [pc EXCEPT ![w] = "cb"]
                /\ pos' = [pos EXCEPT ![w] = i]
                /\ CallbackEntered(w)
                /\ UNCHANGED abandoned
    /\ UNCHANGED <<startv, reqv>>
    /\ UNCHANGED <<cfgv, cntv, mgrv, sockv, trv, wpid, bb, ret, reason, ll,
                   nval, slice_limit, slice_count, fd_lock, sample_count,
                   cluster_key, n_aborts, n_user_abort>>

\* A sample-max test that lets one record too many through.
sample_over_off_by_one(count) == count > sample_max + 1

\* basic_scan_job_reduce_cb's sample-max test on the value of the atomic
\* add: count > job->sample_max.
sample_over(count) == count > sample_max

\* basic_scan_job_reduce_cb from the percent-sampling test to its return,
\* as a function of the record r, slice->limit, slice->count and the shared
\* sample_count: cont is the value returned (continue the iteration), tally
\* the job counter incremented, emit whether the record was serialized into
\* the buffer, count and sample the new slice->count and job->sample_count,
\* calls the calls made on the record.
BasicCb(r, limit, count, sample) ==
    LET count2 == IF limit # 0 THEN count + 1 ELSE count
        meta == basic_scan_predexp_filter_meta(r)
        sample2 == IF max_per_partition # 0 THEN sample + 1 ELSE sample
        last_sample == max_per_partition # 0 /\ sample2 = sample_max
        out(c, t, e, s, k) == [cont |-> c, tally |-> t, emit |-> e,
                               count |-> count2, sample |-> s, calls |-> k]
    IN  IF limit # 0 /\ count = limit
        THEN out(FALSE, "none", FALSE, sample, cb_exit_calls)
        ELSE IF limit # 0 /\ ~as_record_is_live(r)
        THEN out(TRUE, "none", FALSE, sample, cb_exit_calls)
        ELSE IF excluded_set(r) \/ as_record_is_doomed(r)
        THEN out(TRUE, "none", FALSE, sample, cb_exit_calls)
        ELSE IF ~meta.pass
        THEN out(TRUE, "n_filtered_meta", FALSE, sample, cb_exit_calls)
        ELSE IF meta.pending /\ predexp_read_and_filter_bins_fails(r)
        THEN out(TRUE, "n_filtered_bins", FALSE, sample, cb_exit_calls_rd)
        ELSE IF max_per_partition # 0 /\ sample_over(sample2)
        THEN out(FALSE, "none", FALSE, sample2, cb_exit_calls_rd)
        ELSE IF ~no_bin_data /\ as_storage_rd_load_bins_fails(r)
        THEN out(TRUE, "n_failed", FALSE, sample2, cb_exit_calls_rd)
        ELSE out(~last_sample, "n_succeeded", TRUE, sample2,
                 cb_exit_calls_rd)

\* A count that books a record the bin predicate rejects as failed too.
Tally_filtered_is_failed(tally) ==
    /\ n_succeeded' = n_succeeded + (IF tally = "n_succeeded" THEN 1 ELSE 0)
    /\ n_failed' = n_failed +
           (IF tally \in {"n_failed", "n_filtered_bins"} THEN 1 ELSE 0)
    /\ n_filtered_meta' =
           n_filtered_meta + (IF tally = "n_filtered_meta" THEN 1 ELSE 0)
    /\ n_filtered_bins' =
           n_filtered_bins + (IF tally = "n_filtered_bins" THEN 1 ELSE 0)

\* The job counters after a callback that incremented counter tally.
Tally(tally) ==
    /\ n_succeeded' = n_succeeded + (IF tally = "n_succeeded" THEN 1 ELSE 0)
    /\ n_failed' = n_failed + (IF tally = "n_failed" THEN 1 ELSE 0)
    /\ n_filtered_meta' =
           n_filtered_meta + (IF tally = "n_filtered_meta" THEN 1 ELSE 0)
    /\ n_filtered_bins' =
           n_filtered_bins + (IF tally = "n_filtered_bins" THEN 1 ELSE 0)

\* A callback that sends the buffer as soon as it holds anything.
over_chunk_limit_any(b) == Len(b) > 0

\* basic_scan_job_reduce_cb: bb->used_sz > SCAN_CHUNK_LIMIT.
over_chunk_limit(b) == Len(b) > ChunkItems

\* basic_scan_job_reduce_cb after its two entry tests: filter, sample,
\* serialize and count the record; send the buffer when it exceeds
\* SCAN_CHUNK_LIMIT.
basic_scan_job_reduce_cb(w) ==
    /\ pc[w] = "cb"
    /\ type = SCAN_TYPE_BASIC
    /\ LET p == wpid[w]
           o == BasicCb(tree[p][pos[w]], slice_limit[w], slice_count[w],
                        sample_count)
           bb2 == IF o.emit THEN as_msg_bufbuilder(bb[w], RecItem(p, pos[w]))
                  ELSE bb[w]
           chunk == o.cont /\ o.emit /\ over_chunk_limit(bb2)
       IN  /\ Tally(o.tally)
           /\ CallbackReturns(w, o.calls)
           /\ sample_count' = o.sample
           /\ slice_count' = [slice_count EXCEPT ![w] = o.count]
           /\ bb' = [bb EXCEPT ![w] = bb2]
           /\ pc' = [pc EXCEPT ![w] = IF ~o.cont THEN "slice_end"
                                     ELSE IF chunk THEN "send" ELSE "reduce"]
           /\ ret' = [ret EXCEPT ![w] = IF chunk THEN "cb" ELSE @]
    /\ UNCHANGED <<startv, reqv>>
    /\ UNCHANGED <<cfgv, mgrv, sockv, trv, wpid, pos, reason, ll, nval,
                   slice_limit, abandoned, fd_lock, cluster_key, n_aborts,
                   n_user_abort>>

\* A slice that reports its partition as done only when the job is not
\* abandoned.
pid_done_at_end_unless_abandoned == pids_given /\ abandoned = AS_OK

\* basic_scan_job_slice after the reduce: _job->pids != NULL, the test
\* under which the per-pid-done marker is appended.
pid_done_at_end == pids_given

\* basic_scan_job_slice after the reduce: the per-pid-done chunk of a
\* per-partition scan, and the flush of a buffer that holds payload.
basic_scan_job_slice_end(w) ==
    /\ pc[w] = "slice_end"
    /\ type = SCAN_TYPE_BASIC
    /\ LET bb2 == IF pid_done_at_end
                  THEN as_msg_bufbuilder(bb[w], PidDoneItem(wpid[w], AS_OK))
                  ELSE bb[w]
       IN  IF bb2 # <<>>
           THEN /\ bb' = [bb EXCEPT ![w] = bb2]
                /\ pc' = [pc EXCEPT ![w] = "send"]
                /\ ret' = [ret EXCEPT ![w] = "end"]
                /\ UNCHANGED <<wpid, pos, reason, ll, nval, slice_limit,
                               slice_count>>
           ELSE SliceReturn(w)
    /\ UNCHANGED <<startv, resv, reqv>>
    /\ UNCHANGED <<cfgv, cntv, mgrv, sockv, trv, abandoned, fd_lock,
                   sample_count, cluster_key, n_aborts, n_user_abort>>

\* ------------------------------------------------------- aggr_scan_job

\* aggr_scan_job_slice up to the reduce: the digest list and the buffer.
aggr_scan_job_slice(w) ==
    /\ pc[w] = "slice"
    /\ type = SCAN_TYPE_AGGR
    /\ pc' = [pc EXCEPT ![w] = "reduce"]
    /\ bb' = [bb EXCEPT ![w] = <<>>]
    /\ ll' = [ll EXCEPT ![w] = 0]
    /\ nval' = [nval EXCEPT ![w] = 0]
    /\ pos' = [pos EXCEPT ![w] = 0]
    /\ UNCHANGED <<startv, resv, reqv>>
    /\ UNCHANGED <<cfgv, cntv, mgrv, sockv, trv, wpid, ret, reason,
                   slice_limit, slice_count, abandoned, fd_lock,
                   sample_count, cluster_key, n_aborts, n_user_abort>>

\* as_index_reduce_live hands the next live entry to
\* aggr_scan_job_reduce_cb, which returns false at once when the job is
\* abandoned; after the reduce a non-empty digest list goes to
\* as_aggr_process.
aggr_scan_job_reduce(w) ==
    /\ pc[w] = "reduce"
    /\ type = SCAN_TYPE_AGGR
    /\ LET i == NextIdx(tree[wpid[w]], pos[w], TRUE)
       IN  IF i = 0 \/ job_abandoned
           THEN /\ pc' = [pc EXCEPT ![w] = IF ll[w] # 0 THEN "aggr_process"
                                          ELSE "aggr_flush"]
                /\ IF i = 0 THEN UNCHANGED resv
                   ELSE CallbackReturns(w, cb_exit_calls)
                /\ UNCHANGED pos
           ELSE /\ pc' = [pc EXCEPT ![w] = "cb"]
                /\ pos' = [pos EXCEPT ![w] = i]
                /\ CallbackEntered(w)
    /\ UNCHANGED <<startv, reqv>>
    /\ UNCHANGED <<cfgv, cntv, mgrv, sockv, trv, wpid, bb, ret, reason, ll,
                   nval, slice_limit, slice_count, abandoned, fd_lock,
                   sample_count, cluster_key, n_aborts, n_user_abort>>

\* aggr_scan_job_reduce_cb after its entry test: set and doomed filters,
\* aggr_scan_add_digest (which fails when no digest array can be had for an
\* empty list), the count.
aggr_scan_job_reduce_cb(w) ==
    /\ pc[w] = "cb"
    /\ type = SCAN_TYPE_AGGR
    /\ LET r == tree[wpid[w]][pos[w]]
       IN  IF excluded_set(r) \/ as_record_is_doomed(r)
           THEN /\ pc' = [pc EXCEPT ![w] = "reduce"]
                /\ CallbackReturns(w, cb_exit_calls)
                /\ UNCHANGED <<ll, abandoned, cntv>>
           ELSE \E added \in (IF ll[w] = 0 THEN BOOLEAN ELSE {TRUE}) :
                IF ~added
                THEN /\ abandoned' = as_scan_manager_abandon_job(abandoned,
                                         AS_ERR_UNKNOWN)
                     /\ pc' = [pc EXCEPT ![w] = "aggr_flush"]
                     /\ CallbackReturns(w, cb_exit_calls)
                     /\ UNCHANGED <<ll, cntv>>
                ELSE /\ ll' = [ll EXCEPT ![w] = @ + 1]
                     /\ CallbackReturns(w, cb_exit_calls)
                     /\ Tally("n_succeeded")
                     /\ pc' = [pc EXCEPT ![w] = "reduce"]
                     /\ UNCHANGED abandoned
    /\ UNCHANGED <<startv, reqv>>
    /\ UNCHANGED <<cfgv, mgrv, sockv, trv, wpid, pos, bb, ret, reason, nval,
                   slice_limit, slice_count, fd_lock, sample_count,
                   cluster_key, n_aborts, n_user_abort>>

\* as_aggr_process: the aggregation runtime writes a value through
\* aggr_scan_ostream_write (at most one per digest here), or returns 0, or
\* returns an error and the slice adds the failure value;
\* aggr_scan_add_val_response sends the buffer when it exceeds
\* SCAN_CHUNK_LIMIT.
as_aggr_process(w) ==
    /\ pc[w] = "aggr_process"
    /\ \E step \in {"write", "ok", "error"} :
        LET bb2 == Append(bb[w], ValItem(wpid[w], nval[w], step = "write"))
            chunk == Len(bb2) > ChunkItems
        IN  IF step = "ok"
            THEN /\ pc' = [pc EXCEPT ![w] = "aggr_flush"]
                 /\ UNCHANGED <<bb, nval, ret>>
            ELSE /\ step = "write" => nval[w] < ll[w]
                 /\ bb' = [bb EXCEPT ![w] = bb2]
                 /\ nval' = [nval EXCEPT ![w] = @ + 1]
                 /\ pc' = [pc EXCEPT ![w] =
                        IF chunk THEN "send"
                        ELSE IF step = "write" THEN "aggr_process"
                        ELSE "aggr_abandon"]
                 /\ ret' = [ret EXCEPT ![w] =
                        IF ~chunk THEN @
                        ELSE IF step = "write" THEN "val" ELSE "val_err"]
    /\ UNCHANGED <<startv, resv, reqv>>
    /\ UNCHANGED <<cfgv, cntv, mgrv, sockv, trv, wpid, pos, reason, ll,
                   slice_limit, slice_count, abandoned, fd_lock,
                   sample_count, cluster_key, n_aborts, n_user_abort>>

\* aggr_scan_job_slice after a failed as_aggr_process and the failure value:
\* as_scan_manager_abandon_job(_job, AS_ERR_UNKNOWN).
aggr_scan_job_abandon(w) ==
    /\ pc[w] = "aggr_abandon"
    /\ abandoned' = as_scan_manager_abandon_job(abandoned, AS_ERR_UNKNOWN)
    /\ pc' = [pc EXCEPT ![w] = "aggr_flush"]
    /\ UNCHANGED <<startv, resv, reqv>>
    /\ UNCHANGED <<cfgv, cntv, mgrv, sockv, trv, slicev, fd_lock,
                   sample_count, cluster_key, n_aborts, n_user_abort>>

\* aggr_scan_job_slice's end: the flush of a buffer that holds payload.
aggr_scan_job_slice_end(w) ==
    /\ pc[w] = "aggr_flush"
    /\ IF bb[w] # <<>>
       THEN /\ pc' = [pc EXCEPT ![w] = "send"]
            /\ ret' = [ret EXCEPT ![w] = "end"]
            /\ UNCHANGED <<wpid, pos, bb, reason, ll, nval, slice_limit,
                           slice_count>>
       ELSE SliceReturn(w)
    /\ UNCHANGED <<startv, resv, reqv>>
    /\ UNCHANGED <<cfgv, cntv, mgrv, sockv, trv, abandoned, fd_lock,
                   sample_count, cluster_key, n_aborts, n_user_abort>>

\* --------------------------------- udf_bg_scan_job and ops_bg_scan_job

BgTypes == {SCAN_TYPE_UDF_BG, SCAN_TYPE_OPS_BG}

\* A start that leaves the socket attached to the transaction.
bg_scan_job_start_fin_stays_attached(fin_ok) ==
    /\ sock' = IF fin_ok THEN "released" ELSE "closed"
    /\ wire' = IF fin_ok THEN Append(wire, <<"fin", AS_OK>>) ELSE wire
    /\ UNCHANGED tr_proto_fd_h

\* udf_bg_scan_job_start / ops_bg_scan_job_start once the job is admitted:
\* as_msg_send_fin(sock, AS_OK), then as_end_of_transaction_ok or, when the
\* fin could not be sent, as_end_of_transaction_force_close; then
\* tr->from.proto_fd_h = NULL.
bg_scan_job_start_fin(fin_ok) ==
    /\ sock' = IF fin_ok THEN "released" ELSE "closed"
    /\ wire' = IF fin_ok THEN Append(wire, <<"fin", AS_OK>>) ELSE wire
    /\ tr_proto_fd_h' = FALSE

\* as_scan_manager_start_job(_job) at the end of udf_bg_scan_job_start /
\* ops_bg_scan_job_start: a refused job is destroyed; for an admitted one
\* start sends the fin on the client's socket and lets go of it.
bg_scan_job_start ==
    /\ jstate = "new"
    /\ type \in BgTypes
    /\ \E result \in {AS_OK, "AS_ERR_FORBIDDEN"}, fin_ok \in BOOLEAN :
        /\ start_result' = result
        /\ IF result # AS_OK
           THEN /\ jstate' = "rejected"
                /\ UNCHANGED <<todo, sock, wire, tr_proto_fd_h>>
           ELSE /\ jstate' = "active"
                /\ todo' = Pids
                /\ bg_scan_job_start_fin(fin_ok)
        /\ pids_frees' = IF result = AS_OK THEN pids_frees
                         ELSE pids_frees + job_pids(type, tr_msg)
    /\ job_rps' = as_scan_job_init_rps(type, tr_msg)
    /\ origin_msgp' = IF type = SCAN_TYPE_UDF_BG
                      THEN udf_bg_origin_msgp(tr_msg)
                      ELSE ops_bg_origin_msgp(tr_msg)
    /\ UNCHANGED <<resv, tr_msg, ns_cfg>>
    /\ UNCHANGED <<cfgv, cntv, trv, slicev, pc, abandoned, fd_lock,
                   sample_count, cluster_key, n_aborts, n_user_abort,
                   ns_stat, fin_code, fd_h, writers, n_release,
                   use_after_release, fin_sent, force_closed, disowned>>

\* udf_bg_scan_job_slice / ops_bg_scan_job_slice: as_index_reduce_live.
bg_scan_job_slice(w) ==
    /\ pc[w] = "slice"
    /\ type \in BgTypes
    /\ pc' = [pc EXCEPT ![w] = "reduce"]
    /\ pos' = [pos EXCEPT ![w] = 0]
    /\ UNCHANGED <<startv, resv, reqv>>
    /\ UNCHANGED <<cfgv, cntv, mgrv, sockv, trv, wpid, bb, ret, reason, ll,
                   nval, slice_limit, slice_count, abandoned, fd_lock,
                   sample_count, cluster_key, n_aborts, n_user_abort>>

\* The iteration hands the next live entry to the background reduce
\* callback, which returns false at once when the job is abandoned.
bg_scan_job_reduce(w) ==
    /\ pc[w] = "reduce"
    /\ type \in BgTypes
    /\ LET i == NextIdx(tree[wpid[w]], pos[w], TRUE)
       IN  IF i = 0 \/ job_abandoned
           THEN /\ SliceReturn(w)
                /\ IF i = 0 THEN UNCHANGED resv
                   ELSE CallbackReturns(w, cb_exit_calls)
           ELSE /\ pc' = [pc EXCEPT ![w] = "cb"]
                /\ pos' = [pos EXCEPT ![w] = i]
                /\ CallbackEntered(w)
                /\ UNCHANGED <<wpid, bb, ret, reason, ll, nval, slice_limit,
                               slice_count>>
    /\ UNCHANGED <<startv, reqv>>
    /\ UNCHANGED <<cfgv, cntv, mgrv, sockv, trv, abandoned, fd_lock,
                   sample_count, cluster_key, n_aborts, n_user_abort>>

\* A background callback that goes into its wait with the record still
\* reserved.
bg_cb_calls_before_wait_none == <<>>

\* The calls a background callback makes on a record that passed the
\* filters, after copying keyd and before the wait on n_active_tr.
bg_cb_calls_before_wait == <<"as_record_done">>

\* udf_bg_scan_job_reduce_cb / ops_bg_scan_job_reduce_cb after the entry
\* test: set, doomed and metadata-predicate filters, then the record is
\* released.
bg_scan_job_reduce_cb(w) ==
    /\ pc[w] = "cb"
    /\ type \in BgTypes
    /\ LET r == tree[wpid[w]][pos[w]]
       IN  IF excluded_set(r) \/ as_record_is_doomed(r)
           THEN /\ pc' = [pc EXCEPT ![w] = "reduce"]
                /\ CallbackReturns(w, cb_exit_calls)
                /\ UNCHANGED cntv
           ELSE IF predexp
                   /\ predexp_matches_metadata(r) = "PREDEXP_FALSE"
           THEN /\ pc' = [pc EXCEPT ![w] = "reduce"]
                /\ CallbackReturns(w, cb_exit_calls)
                /\ Tally("n_filtered_meta")
           ELSE /\ pc' = [pc EXCEPT ![w] = "bg_wait"]
                /\ CallbackReturns(w, bg_cb_calls_before_wait)
                /\ UNCHANGED cntv
    /\ UNCHANGED <<startv, reqv>>
    /\ UNCHANGED <<cfgv, mgrv, sockv, trv, slicev, abandoned, fd_lock,
                   sample_count, cluster_key, n_aborts, n_user_abort>>

\* The callback's wait loop: it goes on once it reads an n_active_tr that
\* is not above MAX_ACTIVE_TRANSACTIONS (and then throttle-sleeps).
bg_scan_job_wait(w) ==
    /\ pc[w] = "bg_wait"
    /\ ~(n_active_tr > MaxActive)
    /\ pc' = [pc EXCEPT ![w] = "bg_enqueue"]
    /\ UNCHANGED <<startv, resv, reqv>>
    /\ UNCHANGED <<cfgv, cntv, mgrv, sockv, trv, slicev, abandoned, fd_lock,
                   sample_count, cluster_key, n_aborts, n_user_abort>>

\* A callback that hands the sub-transaction to the service before it
\* counts it.
bg_cb_last_calls_enqueue_first ==
    <<"as_service_enqueue_internal", "as_incr_uint32">>

\* The last two calls of a background callback, in order.
bg_cb_last_calls == <<"as_incr_uint32", "as_service_enqueue_internal">>

\* The effect of one of the two: as_incr_uint32(&job->n_active_tr), or
\* as_service_enqueue_internal(&tr), after which the sub-transaction can
\* complete.
BgCbCall(f) ==
    IF f = "as_incr_uint32"
    THEN /\ n_active_tr' = n_active_tr + 1
         /\ UNCHANGED <<tr_queue, n_enqueued>>
    ELSE /\ tr_queue' = tr_queue + 1
         /\ n_enqueued' = n_enqueued + 1
         /\ UNCHANGED n_active_tr

\* The callback after the wait and throttle_sleep: as_transaction_init and
\* as_incr_uint32(&job->n_active_tr).
bg_scan_job_incr(w) ==
    /\ pc[w] = "bg_enqueue"
    /\ BgCbCall(bg_cb_last_calls[1])
    /\ pc' = [pc EXCEPT ![w] = "bg_push"]
    /\ UNCHANGED <<startv, resv, reqv>>
    /\ UNCHANGED <<cfgv, cntv, mgrv, sockv, slicev, abandoned, fd_lock,
                   sample_count, cluster_key, n_aborts, n_user_abort,
                   tr_mid, n_not_found, uaf>>

\* The callback's end: as_service_enqueue_internal(&tr); return true.
bg_scan_job_enqueue(w) ==
    /\ pc[w] = "bg_push"
    /\ BgCbCall(bg_cb_last_calls[2])
    /\ pc' = [pc EXCEPT ![w] = "reduce"]
    /\ UNCHANGED <<startv, resv, reqv>>
    /\ UNCHANGED <<cfgv, cntv, mgrv, sockv, slicev, abandoned, fd_lock,
                   sample_count, cluster_key, n_aborts, n_user_abort,
                   tr_mid, n_not_found, uaf>>

\* A completion that leaves the counter as it is.
as_decr_uint32_skipped(n) == n

\* as_decr_uint32(&job->n_active_tr): the new value.
as_decr_uint32(n) == n - 1

\* udf_bg_scan_tr_complete / ops_bg_scan_tr_complete, first statement:
\* as_decr_uint32(&job->n_active_tr).
bg_scan_tr_complete_decr ==
    /\ tr_queue > 0
    /\ tr_queue' = tr_queue - 1
    /\ tr_mid' = tr_mid + 1
    /\ n_active_tr' = as_decr_uint32(n_active_tr)
    /\ uaf' = (uaf \/ jstate = "destroyed")
    /\ UNCHANGED <<startv, resv, reqv>>
    /\ UNCHANGED <<cfgv, cntv, mgrv, sockv, slicev, pc, abandoned, fd_lock,
                   sample_count, cluster_key, n_aborts, n_user_abort,
                   n_enqueued, n_not_found>>

\* A switch whose default case counts nothing.
tr_complete_tally_no_default(result) ==
    IF result = AS_OK THEN "n_succeeded"
    ELSE IF result = AS_ERR_FILTERED_OUT THEN "n_filtered_bins" ELSE "none"

\* The job counter that tr_complete's switch increments for a result.
tr_complete_tally(result) ==
    IF result = AS_OK THEN "n_succeeded"
    ELSE IF result = AS_ERR_NOT_FOUND THEN "none"
    ELSE IF result = AS_ERR_FILTERED_OUT THEN "n_filtered_bins"
    ELSE "n_failed"

\* udf_bg_scan_tr_complete / ops_bg_scan_tr_complete, the switch on the
\* sub-transaction's result.
bg_scan_tr_complete_switch ==
    /\ tr_mid > 0
    /\ tr_mid' = tr_mid - 1
    /\ \E result \in {AS_OK, AS_ERR_NOT_FOUND, AS_ERR_FILTERED_OUT,
                      AS_ERR_UNKNOWN} :
        /\ Tally(tr_complete_tally(result))
        /\ n_not_found' = n_not_found +
                          (IF result = AS_ERR_NOT_FOUND THEN 1 ELSE 0)
    /\ uaf' = (uaf \/ jstate = "destroyed")
    /\ UNCHANGED <<startv, resv, reqv>>
    /\ UNCHANGED <<cfgv, mgrv, sockv, slicev, pc, abandoned, fd_lock,
                   sample_count, cluster_key, n_aborts, n_user_abort,
                   n_active_tr, tr_queue, n_enqueued>>

\* udf_bg_scan_job_finish / ops_bg_scan_job_finish: the wait for
\* n_active_tr == 0, then the namespace counter chosen by _job->abandoned.
bg_scan_job_finish ==
    /\ jstate = "active"
    /\ type \in BgTypes
    /\ AllSlicesDone
    /\ n_active_tr = 0
    /\ jstate' = "finished"
    /\ ns_stat' = [ns_stat EXCEPT ![ns_counter(type, abandoned)] = @ + 1]
    /\ UNCHANGED <<startv, resv, reqv>>
    /\ UNCHANGED <<cfgv, cntv, sockv, trv, slicev, pc, abandoned, fd_lock,
                   sample_count, cluster_key, n_aborts, n_user_abort, todo,
                   fin_code>>

\* ------------------------------------------------------ specifications

\* The index trees of the partitions, drawn from the entry kinds K: a
\* partition this node does not master has no tree.
Trees(K) ==
    {NoTree} \cup UNION {[1..n -> K] : n \in 0..MaxRecs}

\* The state in which a start function has built the job and is about to
\* hand it to the manager.
InitJob ==
    /\ abandoned = AS_OK
    /\ n_succeeded = 0 /\ n_failed = 0
    /\ n_filtered_meta = 0 /\ n_filtered_bins = 0
    /\ fd_h = FALSE /\ fd_lock = 0
    /\ sample_count = 0
    /\ n_active_tr = 0
    /\ jstate = "new" /\ todo = {} /\ n_aborts = 0
    /\ ns_stat = NsStatZero
    /\ fin_code = AS_OK
    /\ cluster_key = 1 /\ job_cluster_key = 1
    /\ sock = "open" /\ wire = <<>> /\ writers = {}
    /\ tr_queue = 0 /\ tr_mid = 0
    /\ pc = [w \in Workers |-> "idle"]
    /\ wpid = [w \in Workers |-> 0]
    /\ pos = [w \in Workers |-> 0]
    /\ bb = [w \in Workers |-> <<>>]
    /\ ret = [w \in Workers |-> "none"]
    /\ reason = [w \in Workers |-> AS_OK]
    /\ ll = [w \in Workers |-> 0]
    /\ nval = [w \in Workers |-> 0]
    /\ slice_limit = [w \in Workers |-> 0]
    /\ slice_count = [w \in Workers |-> 0]
    /\ n_release = 0 /\ use_after_release = FALSE
    /\ fin_sent = FALSE /\ force_closed = FALSE /\ disowned = FALSE
    /\ n_enqueued = 0 /\ n_not_found = 0 /\ uaf = FALSE
    /\ n_user_abort = 0
    /\ start_result = "none" /\ tr_proto_fd_h = TRUE
    /\ r_ref = [w \in Workers |-> 0]
    /\ rd_open = [w \in Workers |-> 0]
    /\ job_rps = 0 /\ origin_msgp = NoMsg
    /\ pids_frees = 0

\* A well-formed request of a current client: no scan options, no rps, one
\* write op for a background-ops scan.
PlainMsg ==
    [set_field |-> "absent", set_exists |-> FALSE, bad_field |-> "none",
     pids_field |-> "absent", priority |-> 0, rps |-> 0,
     predexp_field |-> "absent", bin_names_ok |-> TRUE, def_ok |-> TRUE,
     info1_read |-> FALSE, n_ops |-> 1, info2_durable_delete |-> FALSE,
     info3_update_only |-> FALSE, info3_replace_only |-> FALSE]

\* The request that the job configuration was parsed from, on a node that
\* allows UDFs and is not migrating.
InitRequest ==
    /\ ns_cfg = [udf_execution_disabled |-> FALSE,
                 background_scan_max_rps |-> 10000, migrating |-> FALSE]
    /\ tr_msg = [PlainMsg EXCEPT
                    !.set_field = IF job_set = "none" THEN "absent"
                                  ELSE "name",
                    !.set_exists = (job_set = "known"),
                    !.pids_field = IF pids_given THEN "pids" ELSE "absent",
                    !.predexp_field = IF predexp THEN "ok" ELSE "absent"]

\* Streaming jobs: a basic scan (legacy or per-partition, with or without
\* fail-on-cluster-change) or an aggregation scan, no sampling.
InitConn ==
    /\ InitJob
    /\ type \in {SCAN_TYPE_BASIC, SCAN_TYPE_AGGR}
    /\ pids_given \in (IF type = SCAN_TYPE_BASIC THEN BOOLEAN ELSE {FALSE})
    /\ fail_on_cluster_change \in
           (IF type = SCAN_TYPE_BASIC THEN BOOLEAN ELSE {FALSE})
    /\ job_set = "none"
    /\ no_bin_data = FALSE /\ predexp = FALSE
    /\ sample_pct = 100 /\ sample_max = 0
    /\ max_per_partition = sample_max_init(0, IF pids_given THEN NPids ELSE 0)
    /\ tree \in [Pids -> Trees({"ok"})]
    /\ InitRequest

SliceStep(w) ==
    \/ Dispatch(w)
    \/ basic_scan_job_slice(w)
    \/ basic_scan_job_reduce(w)
    \/ basic_scan_job_reduce_cb(w)
    \/ basic_scan_job_slice_end(w)
    \/ aggr_scan_job_slice(w)
    \/ aggr_scan_job_reduce(w)
    \/ aggr_scan_job_reduce_cb(w)
    \/ as_aggr_process(w)
    \/ aggr_scan_job_abandon(w)
    \/ aggr_scan_job_slice_end(w)
    \/ conn_scan_job_send_response(w)
    \/ send_blocking_response_chunk(w)
    \/ conn_scan_job_send_abandon(w)

NextConn ==
    \/ conn_scan_job_start
    \/ \E w \in Workers : SliceStep(w)
    \/ conn_scan_job_finish
    \/ as_msg_send_fin_timeout
    \/ conn_scan_job_finish_stat
    \/ as_scan_job_destroy
    \/ as_scan_manager_abort_job
    \/ ClusterKeyChange

SpecConn == InitConn /\ [][NextConn]_vars

\* Background jobs: a udf-bg or ops-bg scan with an optional predicate.
InitBg ==
    /\ InitJob
    /\ type \in BgTypes
    /\ pids_given = FALSE /\ fail_on_cluster_change = FALSE
    /\ job_set = "none"
    /\ no_bin_data = FALSE /\ predexp = TRUE
    /\ sample_pct = 100 /\ sample_max = 0 /\ max_per_partition = 0
    /\ tree \in [Pids -> Trees({"ok", "metaF"})]
    /\ InitRequest

BgSliceStep(w) ==
    \/ Dispatch(w)
    \/ bg_scan_job_slice(w)
    \/ bg_scan_job_reduce(w)
    \/ bg_scan_job_reduce_cb(w)
    \/ bg_scan_job_wait(w)
    \/ bg_scan_job_incr(w)
    \/ bg_scan_job_enqueue(w)

NextBg ==
    \/ bg_scan_job_start
    \/ \E w \in Workers : BgSliceStep(w)
    \/ bg_scan_tr_complete_decr
    \/ bg_scan_tr_complete_switch
    \/ bg_scan_job_finish
    \/ as_scan_job_destroy
    \/ as_scan_manager_abort_job

SpecBg == InitBg /\ [][NextBg]_vars

\* Background jobs with the scheduling the code relies on: every worker
\* thread that can take a step eventually does (the pool's threads run the
\* slices and poll in their wait loop), every sub-transaction handed to
\* the transaction service eventually completes and its callback runs to
\* its end, and the thread that runs finish polls n_active_tr until it
\* reads 0. Nothing is assumed about abort_job.
FairBg ==
    /\ WF_vars(bg_scan_job_start)
    /\ \A w \in Workers : WF_vars(BgSliceStep(w))
    /\ WF_vars(bg_scan_tr_complete_decr)
    /\ WF_vars(bg_scan_tr_complete_switch)
    /\ WF_vars(bg_scan_job_finish)
    /\ WF_vars(as_scan_job_destroy)

\* A background job over records that all qualify, partition 0 full and
\* one record in each other partition, so that the slices run into the
\* limit on n_active_tr.
InitBgLive ==
    /\ InitJob
    /\ type \in BgTypes
    /\ pids_given = FALSE /\ fail_on_cluster_change = FALSE
    /\ job_set = "none"
    /\ no_bin_data = FALSE /\ predexp = TRUE
    /\ sample_pct = 100 /\ sample_max = 0 /\ max_per_partition = 0
    /\ tree = [p \in Pids |-> IF p = 0 THEN [i \in 1..MaxRecs |-> "ok"]
                              ELSE <<"ok">>]
    /\ InitRequest

SpecBgLive == InitBgLive /\ [][NextBg]_vars /\ FairBg

\* All four job variants.
SpecAll == (InitConn \/ InitBg) /\ [][NextConn \/ NextBg]_vars

\* A start function returns before the job reaches the manager: nothing
\* is sent, the socket stays with the transaction, and a job that was
\* already built is destroyed.
StartRefused(exit) ==
    /\ start_result' = exit.code
    /\ jstate' = IF exit.built THEN "destroyed" ELSE jstate
    /\ pids_frees' = pids_frees + get_scan_pids_frees(type, tr_msg)
                         + (IF exit.built THEN job_pids(type, tr_msg) ELSE 0)
    /\ UNCHANGED <<cfgv, cntv, todo, ns_stat, fin_code, sockv, trv, slicev,
                   pc, abandoned, fd_lock, sample_count, cluster_key,
                   n_aborts, n_user_abort, tr_proto_fd_h, resv, tr_msg,
                   ns_cfg, job_rps, origin_msgp>>

\* as_scan -> basic_scan_job_start(tr, ns)
basic_scan_job_start ==
    /\ type = SCAN_TYPE_BASIC
    /\ jstate = "new" /\ start_result = "none"
    /\ LET exit == basic_scan_job_start_exit(tr_msg)
       IN  IF exit.code # AS_OK THEN StartRefused(exit)
           ELSE conn_scan_job_start

\* as_scan -> aggr_scan_job_start(tr, ns)
aggr_scan_job_start ==
    /\ type = SCAN_TYPE_AGGR
    /\ jstate = "new" /\ start_result = "none"
    /\ LET exit == aggr_scan_job_start_exit(tr_msg)
       IN  IF exit.code # AS_OK THEN StartRefused(exit)
           ELSE conn_scan_job_start

\* as_scan -> udf_bg_scan_job_start(tr, ns)
udf_bg_scan_job_start ==
    /\ type = SCAN_TYPE_UDF_BG
    /\ jstate = "new" /\ start_result = "none"
    /\ LET exit == udf_bg_scan_job_start_exit(tr_msg)
       IN  IF exit.code # AS_OK THEN StartRefused(exit)
           ELSE bg_scan_job_start

\* as_scan -> ops_bg_scan_job_start(tr, ns)
ops_bg_scan_job_start ==
    /\ type = SCAN_TYPE_OPS_BG
    /\ jstate = "new" /\ start_result = "none"
    /\ LET exit == ops_bg_scan_job_start_exit(tr_msg)
       IN  IF exit.code # AS_OK THEN StartRefused(exit)
           ELSE bg_scan_job_start

\* Values of the RECS_PER_SEC field and of background-scan-max-rps.
RpsValues == {0, 100, 20000}
MaxRpsValues == {1000, 10000}

\* The requests of a scan type: any SET field, at most one malformed
\* field, any old-client priority and rps, a predicate that is absent,
\* builds or does not build; pid or digest arrays for the streaming
\* variants, the info bits and the op count for background-ops.
Requests(t) ==
    {msg \in [set_field : {"absent", "empty", "name", "toolong"},
              set_exists : BOOLEAN,
              bad_field : {"none", "options", "pids", "sample_max", "rps",
                           "timeout"},
              pids_field : {"absent", "pids", "digests"},
              priority : 0..2,
              rps : RpsValues,
              predexp_field : {"absent", "ok", "bad"},
              bin_names_ok : BOOLEAN,
              def_ok : BOOLEAN,
              info1_read : BOOLEAN,
              n_ops : 0..1,
              info2_durable_delete : BOOLEAN,
              info3_update_only : BOOLEAN,
              info3_replace_only : BOOLEAN] :
        /\ msg.set_exists => msg.set_field = "name"
        /\ msg.bad_field = "pids" => msg.pids_field # "absent"
        /\ t \in BgTypes =>
              /\ msg.pids_field = "absent"
              /\ msg.bad_field \in {"none", "options", "rps"}
        /\ t # SCAN_TYPE_BASIC =>
              msg.bin_names_ok /\ msg.bad_field # "sample_max"
        /\ t \in {SCAN_TYPE_BASIC, SCAN_TYPE_OPS_BG} => msg.def_ok
        /\ t = SCAN_TYPE_BASIC => msg.n_ops = 1
        /\ t \in {SCAN_TYPE_AGGR, SCAN_TYPE_UDF_BG} => msg.n_ops = 0
        /\ t \in {SCAN_TYPE_BASIC, SCAN_TYPE_AGGR} =>
              /\ msg.info1_read /\ ~msg.info3_update_only
              /\ ~msg.info3_replace_only /\ ~msg.info2_durable_delete
        /\ t = SCAN_TYPE_UDF_BG =>
              /\ ~msg.info1_read /\ ~msg.info3_update_only
              /\ ~msg.info3_replace_only}

\* A request arrives at as_scan: the job fields are what the start function
\* parses out of it; every partition holds one record.
InitStart ==
    /\ InitJob
    /\ type \in ScanTypes
    /\ tr_msg \in Requests(type)
    /\ ns_cfg \in [udf_execution_disabled :
                       IF type \in {SCAN_TYPE_AGGR, SCAN_TYPE_UDF_BG}
                       THEN BOOLEAN ELSE {FALSE},
                   background_scan_max_rps :
                       IF type \in BgTypes THEN MaxRpsValues ELSE {10000},
                   migrating :
                       IF type = SCAN_TYPE_BASIC THEN BOOLEAN ELSE {FALSE}]
    /\ pids_given = (type = SCAN_TYPE_BASIC /\ tr_msg.pids_field # "absent")
    /\ fail_on_cluster_change \in
           (IF type = SCAN_TYPE_BASIC THEN BOOLEAN ELSE {FALSE})
    /\ job_set = get_scan_set(tr_msg.set_field, tr_msg.set_exists)
    /\ predexp = (type # SCAN_TYPE_AGGR /\ tr_msg.predexp_field = "ok")
    /\ no_bin_data = FALSE
    /\ sample_pct = 100 /\ sample_max = 0 /\ max_per_partition = 0
    /\ tree = [p \in Pids |-> <<"ok">>]

NextStart ==
    \/ basic_scan_job_start
    \/ aggr_scan_job_start
    \/ udf_bg_scan_job_start
    \/ ops_bg_scan_job_start

SpecStart == InitStart /\ [][NextStart]_vars

\* Largest SAMPLE_MAX field of a request.
MaxSample == 2

\* Basic jobs with absolute-max sampling (legacy or per-partition), over
\* partitions that hold readable and unreadable records.
InitSample ==
    /\ InitJob
    /\ type = SCAN_TYPE_BASIC
    /\ pids_given \in BOOLEAN
    /\ fail_on_cluster_change = FALSE
    /\ job_set = "none"
    /\ no_bin_data = FALSE /\ predexp = FALSE
    /\ sample_pct = 100
    /\ sample_max \in 1..MaxSample
    /\ max_per_partition =
           sample_max_init(sample_max, IF pids_given THEN NPids ELSE 0)
    /\ tree \in [Pids -> Trees({"ok", "unread"})]
    /\ InitRequest

SampleSliceStep(w) ==
    \/ Dispatch(w)
    \/ basic_scan_job_slice(w)
    \/ basic_scan_job_reduce(w)
    \/ basic_scan_job_reduce_cb(w)
    \/ basic_scan_job_slice_end(w)
    \/ conn_scan_job_send_response(w)
    \/ send_blocking_response_chunk(w)
    \/ conn_scan_job_send_abandon(w)

NextSample ==
    \/ conn_scan_job_start
    \/ \E w \in Workers : SampleSliceStep(w)
    \/ conn_scan_job_finish
    \/ as_msg_send_fin_timeout
    \/ conn_scan_job_finish_stat
    \/ as_scan_job_destroy
    \/ as_scan_manager_abort_job

SpecSample == InitSample /\ [][NextSample]_vars

\* ------------------------------------------------------------- claims

\* The job's life is over: finish has returned, or start failed.
JobOver == jstate \in {"finished", "destroyed", "rejected"}

\* C1: no completion callback of a background job reads or writes the job
\* after it was destroyed.
C1_NoAccessAfterDestroy == ~uaf

\* C2: once finish of a background job has returned, n_active_tr is 0 and
\* n_succeeded + n_filtered_bins + n_failed + (completions with NOT_FOUND)
\* is the number of sub-transactions the job enqueued.
C2_FinishAccountsForAll ==
    (type \in BgTypes /\ jstate \in {"finished", "destroyed"}) =>
        /\ n_active_tr = 0
        /\ n_succeeded + n_filtered_bins + n_failed + n_not_found = n_enqueued

\* C3: the fd of a streaming job is released at most once and never written
\* after its release, and a job whose life is over has had exactly one of:
\* the fin sent by finish, the fd force-closed after a failed write, the fd
\* disowned back to the caller.
C3_ExactlyOneFdOutcome ==
    LET outcomes == {o \in {"fin", "closed", "disowned"} :
                        \/ o = "fin" /\ fin_sent
                        \/ o = "closed" /\ force_closed
                        \/ o = "disowned" /\ disowned}
    IN  /\ n_release <= 1
        /\ ~use_after_release
        /\ Cardinality(outcomes) <= 1
        /\ JobOver => Cardinality(outcomes) = 1

\* C3 witness: a job is over whose fd was force-closed by a failed chunk
\* write after an earlier chunk went out.
C3_Witness ==
    /\ jstate = "destroyed"
    /\ force_closed /\ ~fin_sent
    /\ wire # <<>>
    /\ abandoned = AS_SCAN_ERR_RESPONSE_ERROR

\* C4: at most one thread is inside a write to the job's socket, be it a
\* slice's chunk write or the fin write of finish.
C4_OneSocketWriter == Cardinality(writers) <= 1

\* C4 witness: one slice is inside its chunk write while another slice of
\* the same job waits to send.
C4_Witness ==
    \E w1, w2 \in Workers :
        w1 # w2 /\ pc[w1] = "send_write" /\ pc[w2] = "send"

\* C7: abandoned is write-once (the first reason stays), and however many
\* abort_job calls are made at most one sets USER_ABORT.
C7_AbandonWriteOnce ==
    [][/\ abandoned # AS_OK => abandoned' = abandoned
       /\ n_user_abort' <= 1]_vars

\* C7 witness: two abort_job calls were made on a job and one took effect.
C7_Witness ==
    n_aborts = 2 /\ n_user_abort = 1 /\ abandoned = AS_SCAN_ERR_USER_ABORT

\* C5 as stated: a failed socket write force-closes the fd, the job's
\* abandoned field is RESPONSE_ERROR (RESPONSE_TIMEOUT after a timeout) when
\* that send_response returns, and nothing is written to the socket
\* afterwards.
C5_FailedWriteSetsResponseCode ==
    [][/\ \A w \in Workers :
            /\ (pc[w] = "send_write" /\ pc'[w] = "send_abandon") =>
                    (sock' = "closed" /\ ~fd_h')
            /\ (pc[w] = "send_abandon" /\ pc'[w] # "send_abandon") =>
                    abandoned' = reason[w]
       /\ sock = "closed" => (wire' = wire /\ writers' \subseteq writers)
      ]_vars

\* C5: a failed socket write force-closes the fd; when that send_response
\* returns the job is abandoned, with RESPONSE_ERROR (RESPONSE_TIMEOUT after
\* a timeout) if it was not abandoned before and with the earlier reason
\* otherwise; and nothing is written to the socket afterwards.
C5_FailedWriteAbandons ==
    [][/\ \A w \in Workers :
            /\ (pc[w] = "send_write" /\ pc'[w] = "send_abandon") =>
                    /\ sock' = "closed" /\ ~fd_h'
                    /\ reason'[w] \in {AS_SCAN_ERR_RESPONSE_ERROR,
                                       AS_SCAN_ERR_RESPONSE_TIMEOUT}
            /\ (pc[w] = "send_abandon" /\ pc'[w] # "send_abandon") =>
                    /\ abandoned' # AS_OK
                    /\ abandoned = AS_OK => abandoned' = reason[w]
                    /\ abandoned # AS_OK => abandoned' = abandoned
       /\ sock = "closed" => (wire' = wire /\ writers' \subseteq writers)
      ]_vars

\* C5 witness: a chunk went out, a later chunk write timed out, and the job
\* ended abandoned with RESPONSE_TIMEOUT and no fin.
C5_Witness ==
    /\ jstate = "destroyed"
    /\ sock = "closed" /\ ~fin_sent
    /\ abandoned = AS_SCAN_ERR_RESPONSE_TIMEOUT
    /\ \E k \in 1..Len(wire) : wire[k][1] = "chunk"

\* Slices inside basic_scan_job_reduce_cb, past its entry tests.
InCb == Cardinality({w \in Workers : pc[w] = "cb"})

\* C6 as stated: once the cluster key differs from the job's, a record is
\* emitted only by a job already abandoned with CLUSTER_KEY_MISMATCH (and
\* so, by C8, not at all).
C6_NoRecordAfterKeyChange ==
    [][(cluster_key # job_cluster_key /\ n_succeeded' > n_succeeded) =>
            abandoned = AS_ERR_CLUSTER_KEY_MISMATCH]_vars

\* C6: once the cluster key differs from the job's, every reduce callback
\* that starts abandons the job (CLUSTER_KEY_MISMATCH unless it is already
\* abandoned) and emits nothing; the only records still emitted are those
\* of callbacks that had passed the key test before the change.
C6_KeyChangeStopsNewCallbacks ==
    [][cluster_key # job_cluster_key =>
        /\ n_succeeded' + InCb' <= n_succeeded + InCb
        /\ \A w \in Workers :
            (/\ pc[w] = "reduce" /\ pc'[w] # "reduce"
             /\ NextIdx(tree[wpid[w]], pos[w], BasicLiveOnly) # 0) =>
                /\ pc'[w] = "slice_end"
                /\ abandoned' # AS_OK
                /\ abandoned = AS_OK =>
                        abandoned' = AS_ERR_CLUSTER_KEY_MISMATCH
      ]_vars

\* C6 witness: the key changed, a slice abandoned the job with
\* CLUSTER_KEY_MISMATCH with entries left in its partition, and another
\* slice is still inside a callback.
C6_Witness ==
    /\ cluster_key # job_cluster_key
    /\ abandoned = AS_ERR_CLUSTER_KEY_MISMATCH
    /\ n_succeeded > 0
    /\ \E w1, w2 \in Workers :
        /\ pc[w1] = "cb"
        /\ pc[w2] = "slice_end"
        /\ NextIdx(tree[wpid[w2]], pos[w2], BasicLiveOnly) # 0

\* Records a job may still count as succeeded without a new callback
\* starting: the callbacks already past their abandoned test, and for a
\* background job the sub-transactions enqueued and not yet tallied.
Pending ==
    Cardinality({w \in Workers : pc[w] \in {"cb", "bg_wait", "bg_enqueue",
                                         "bg_push"}})
        + tr_queue + tr_mid

\* C8 as stated: once abandoned is non-zero n_succeeded is never
\* incremented again, and the four counters never decrease.
C8_NoSuccessAfterAbandon ==
    [][/\ abandoned # AS_OK => n_succeeded' = n_succeeded
       /\ n_succeeded' >= n_succeeded /\ n_failed' >= n_failed
       /\ n_filtered_meta' >= n_filtered_meta
       /\ n_filtered_bins' >= n_filtered_bins]_vars

\* C8: once abandoned is non-zero no callback that starts afterwards counts
\* a record as succeeded: n_succeeded grows only by callbacks already past
\* their abandoned test and by sub-transactions already or thereby
\* enqueued; and the four counters never decrease.
C8_NoNewSuccessAfterAbandon ==
    [][/\ abandoned # AS_OK =>
            n_succeeded' + Pending' <= n_succeeded + Pending
       /\ n_succeeded' >= n_succeeded /\ n_failed' >= n_failed
       /\ n_filtered_meta' >= n_filtered_meta
       /\ n_filtered_bins' >= n_filtered_bins]_vars

\* C8 witness: a basic job that emitted a record was abandoned and a slice
\* stopped iterating with index entries left in its partition.
C8_Witness ==
    /\ type = SCAN_TYPE_BASIC
    /\ abandoned = AS_SCAN_ERR_USER_ABORT
    /\ n_succeeded > 0
    /\ \E w \in Workers :
        /\ pc[w] = "slice_end"
        /\ NextIdx(tree[wpid[w]], pos[w], BasicLiveOnly) # 0

\* Index entries of the kinds K in the partitions this node masters.
Population(K) ==
    Cardinality({e \in Pids \X (1..MaxRecs) :
                    /\ tree[e[1]] # NoTree
                    /\ e[2] <= Len(tree[e[1]])
                    /\ tree[e[1]][e[2]] \in K})

\* Sub-transactions whose completion callback has run its switch.
Tallied == n_succeeded + n_filtered_bins + n_failed + n_not_found

\* Slices inside a background reduce callback, past its abandoned test.
BgInCb ==
    Cardinality({w \in Workers : pc[w] \in {"cb", "bg_wait", "bg_enqueue",
                                         "bg_push"}})

\* C9 as stated: a cancelled background job enqueues no sub-transaction,
\* and every sub-transaction enqueued is tallied by its completion.
C9_NoEnqueueAfterCancel ==
    /\ [](n_enqueued = tr_queue + tr_mid + Tallied)
    /\ [][abandoned # AS_OK => n_enqueued' = n_enqueued]_vars

\* C9: a cancelled background job starts no new reduce callback, so the
\* only sub-transactions enqueued after the cancel are those of callbacks
\* already past their abandoned test (one per running slice); every
\* sub-transaction enqueued stays in flight until its completion callback
\* tallies it exactly once, cancelled or not.
C9_NoNewCallbackAfterCancel ==
    /\ [](n_enqueued = tr_queue + tr_mid + Tallied)
    /\ [][/\ abandoned # AS_OK =>
                n_enqueued' + BgInCb' <= n_enqueued + BgInCb
          /\ tr_mid' < tr_mid => Tallied' = Tallied + 1
          /\ tr_mid' >= tr_mid => Tallied' = Tallied]_vars

\* C9 witness: a cancelled background job whose slices have all returned
\* with qualifying records left unvisited, and whose completions tallied
\* a sub-transaction that was in flight.
C9_Witness ==
    /\ type \in BgTypes
    /\ abandoned = AS_SCAN_ERR_USER_ABORT
    /\ jstate = "finished"
    /\ n_enqueued > 0 /\ n_failed = n_enqueued
    /\ n_enqueued + n_filtered_meta < Population({"ok", "metaF"})

\* Partitions the request names: all of them in every case modelled.
PidsRequested == NPids

\* C10 as stated: for a sample-max job that has finished R is at most
\* M + SAMPLE_MARGIN * P and, when the population is at least M and the job
\* is not abandoned, at least M; the callback that gets count = sample_max
\* emits and stops, one that gets a count above it drops its record.
C10_SampleBounds ==
    /\ []((max_per_partition # 0 /\ jstate \in {"finished", "destroyed"}) =>
            /\ n_succeeded <= sample_max + SAMPLE_MARGIN * PidsRequested
            /\ (Population({"ok", "unread"}) >= sample_max
                    /\ abandoned = AS_OK) => n_succeeded >= sample_max)
    /\ [][\A w \in Workers :
            (max_per_partition # 0 /\ pc[w] = "cb" /\ pc'[w] # "cb") =>
                /\ sample_count' = sample_max =>
                        (n_succeeded' = n_succeeded + 1
                            /\ pc'[w] = "slice_end")
                /\ sample_count' > sample_max =>
                        (cntv' = cntv /\ bb' = bb)]_vars

\* C10: a sample-max job never emits more than M records (so R is at most
\* M + SAMPLE_MARGIN * P); for a job that finished not abandoned over a
\* population of at least M, R plus the records counted as failed is at
\* least M; the callback that gets count = sample_max emits and stops unless
\* the record's bins do not load (then it counts a failure and the
\* iteration goes on); one that gets a count above sample_max drops its
\* record and stops.
C10_SampleBoundsLessFailed ==
    /\ [](max_per_partition # 0 =>
            /\ n_succeeded <= sample_max
            /\ n_succeeded <= sample_max + SAMPLE_MARGIN * PidsRequested
            /\ (jstate \in {"finished", "destroyed"}
                    /\ Population({"ok", "unread"}) >= sample_max
                    /\ abandoned = AS_OK) =>
                        n_succeeded + n_failed >= sample_max)
    /\ [][\A w \in Workers :
            (max_per_partition # 0 /\ pc[w] = "cb" /\ pc'[w] # "cb") =>
                /\ sample_count' = sample_count + 1
                /\ sample_count' = sample_max =>
                        \/ /\ n_succeeded' = n_succeeded + 1
                           /\ Len(bb'[w]) = Len(bb[w]) + 1
                           /\ pc'[w] = "slice_end"
                        \/ /\ tree[wpid[w]][pos[w]] = "unread"
                           /\ n_failed' = n_failed + 1
                           /\ n_succeeded' = n_succeeded /\ bb' = bb
                           /\ pc'[w] = "reduce"
                /\ sample_count' > sample_max =>
                        (cntv' = cntv /\ bb' = bb /\ pc'[w] = "slice_end")
      ]_vars

\* C10 witness: a sample-max job finished not abandoned with exactly M
\* records emitted, after a callback that got a count above sample_max
\* dropped its record.
C10_Witness ==
    /\ max_per_partition # 0
    /\ jstate = "finished" /\ abandoned = AS_OK
    /\ n_succeeded = sample_max
    /\ sample_count > sample_max
    /\ Population({"ok", "unread"}) > sample_max

\* Slices that can be running at once: one per worker thread and one per
\* partition.
MaxSlices == IF NWorkers < NPids THEN NWorkers ELSE NPids

\* C11 as stated: for a sample-max job, whenever no reduce callback is in
\* progress, sample_count is at most sample_max.
C11_SampleCountAtRest ==
    (max_per_partition # 0 /\ \A w \in Workers : pc[w] # "cb") =>
        sample_count <= sample_max

\* C11: for a sample-max job sample_count exceeds sample_max by at most one
\* per slice that was iterating when the target was reached (so by at most
\* the number of worker threads and of partitions): the callback whose
\* atomic add returns a count above sample_max ends its slice and emits
\* nothing, and no slice starts iterating once sample_count has reached
\* sample_max.
C11_SampleCountOvershoot ==
    /\ [](max_per_partition # 0 => sample_count <= sample_max + MaxSlices)
    /\ [][max_per_partition # 0 =>
            \A w \in Workers :
                /\ (/\ pc[w] = "cb" /\ pc'[w] # "cb"
                    /\ sample_count' > sample_max) =>
                        (pc'[w] = "slice_end" /\ bb' = bb /\ cntv' = cntv)
                /\ (pc[w] = "slice" /\ sample_count >= sample_max) =>
                        pc'[w] # "reduce"]_vars

\* C11 witness: a sample-max job finished, at rest, with sample_count above
\* sample_max by one for each of its slices.
C11_Witness ==
    /\ max_per_partition # 0
    /\ jstate = "finished"
    /\ \A w \in Workers : pc[w] = "idle"
    /\ sample_count = sample_max + MaxSlices

\* SAMPLE_MAX of a request whose target is above the per-partition budget,
\* and the number of records of the partition that can meet it alone.
BudgetMax == 10
BudgetRecs == 10

\* A sample-max job whose target one partition can meet alone: partition 0
\* holds BudgetRecs readable records, the others are empty.
InitBudget ==
    /\ InitJob
    /\ type = SCAN_TYPE_BASIC
    /\ pids_given \in BOOLEAN
    /\ fail_on_cluster_change = FALSE
    /\ job_set = "none"
    /\ no_bin_data = FALSE /\ predexp = FALSE
    /\ sample_pct = 100
    /\ sample_max = BudgetMax
    /\ max_per_partition =
           sample_max_init(sample_max, IF pids_given THEN NPids ELSE 0)
    /\ tree = [p \in Pids |-> IF p = 0 THEN [i \in 1..BudgetRecs |-> "ok"]
                              ELSE <<>>]
    /\ InitRequest

SpecBudget == InitBudget /\ [][NextSample]_vars

\* Positions <<k, j>> of the items the client has received: item j of the
\* k-th message on the wire, a chunk.
WirePositions ==
    UNION {{<<k, j>> : j \in 1..Len(wire[k][2])} :
              k \in {k \in 1..Len(wire) : wire[k][1] = "chunk"}}

\* Number of records of partition p the client has received.
WireRecs(p) ==
    Cardinality({e \in WirePositions :
                    /\ wire[e[1]][2][e[2]][1] = "rec"
                    /\ wire[e[1]][2][e[2]][2] = p})

\* C12: under absolute-max sampling the slice of a partition emits at most
\* max_per_partition = ceil(sample_max / n_pids_requested) + SAMPLE_MARGIN
\* records.
C12_PartitionBudget ==
    max_per_partition # 0 =>
        \A p \in Pids : WireRecs(p) <= max_per_partition

\* The sample_pct values of the requests modelled.
PctValues == {50, 100}

\* Basic jobs in each sampling mode, a SAMPLE_MAX field together with
\* sample_pct < 100 included, over partitions that hold live records and
\* tombstones.
InitMode ==
    /\ InitJob
    /\ type = SCAN_TYPE_BASIC
    /\ pids_given \in BOOLEAN
    /\ fail_on_cluster_change = FALSE
    /\ job_set = "none"
    /\ no_bin_data = FALSE /\ predexp = FALSE
    /\ sample_pct \in PctValues
    /\ sample_max \in {0, 1}
    /\ max_per_partition =
           sample_max_init(sample_max, IF pids_given THEN NPids ELSE 0)
    /\ tree \in [Pids -> Trees({"ok", "tomb"})]
    /\ InitRequest

SpecMode == InitMode /\ [][NextSample]_vars

\* The job samples by percent.
PctMode ==
    type = SCAN_TYPE_BASIC /\ max_per_partition = 0 /\ sample_pct # 100

\* C13: for a percent-sampling job the slice of a partition of S index
\* entries iterates only with the limit floor(S * p / 100), and only when
\* that is not 0; every callback counts its entry, tombstones included,
\* before any filter, and the callback that finds the count at the limit
\* stops the iteration without considering its entry.
C13_PercentLimit ==
    /\ [](PctMode =>
            \A w \in Workers :
                /\ pc[w] \in {"reduce", "cb"} =>
                    /\ slice_limit[w] =
                           (Len(tree[wpid[w]]) * sample_pct) \div 100
                    /\ slice_limit[w] # 0
                    /\ slice_count[w] <= slice_limit[w]
                /\ slice_count[w] <= slice_limit[w] + 1)
    /\ [][PctMode =>
            \A w \in Workers :
                (pc[w] = "cb" /\ pc'[w] # "cb") =>
                    /\ slice_count'[w] = slice_count[w] + 1
                    /\ slice_count[w] = slice_limit[w] =>
                            /\ pc'[w] = "slice_end"
                            /\ cntv' = cntv /\ bb' = bb]_vars

\* C13 witness: a percent slice over <<tombstone, live record>> with limit
\* 1 counted the tombstone and was stopped at the live record.
C13_Witness ==
    /\ PctMode
    /\ \E w \in Workers :
        /\ pc[w] = "slice_end"
        /\ tree[wpid[w]] = <<"tomb", "ok">>
        /\ slice_limit[w] = 1 /\ slice_count[w] = 2
        /\ pos[w] = 2 /\ bb[w] = <<>>

\* The branch basic_scan_job_slice takes, by the job's fields.
SamplingMode ==
    IF max_per_partition # 0 THEN "max"
    ELSE IF sample_pct # 100 THEN "pct" ELSE "full"

\* The smaller of two numbers.
Least(a, b) == IF a < b THEN a ELSE b

\* C14: a basic job runs in one sampling mode, fixed for the job and chosen
\* by the request: absolute-max when sample_max > 0, whatever sample_pct
\* (no percent limit is set, tombstones are not iterated, and a job that
\* finishes not abandoned has emitted min(sample_max, live records)
\* records); percent when sample_max = 0 and sample_pct # 100 (the sample
\* count is never touched, a slice iterates only with a non-zero limit);
\* full scan when sample_max = 0 and sample_pct = 100 (no limit, no sample
\* count, every live record emitted when the job finishes not abandoned).
C14_OneSamplingMode ==
    /\ [](type = SCAN_TYPE_BASIC =>
            /\ SamplingMode = (IF sample_max > 0 THEN "max"
                               ELSE IF sample_pct # 100 THEN "pct"
                               ELSE "full")
            /\ sample_max > 0 =>
                /\ \A w \in Workers :
                    /\ slice_limit[w] = 0 /\ slice_count[w] = 0
                    /\ pc[w] = "cb" => tree[wpid[w]][pos[w]] # "tomb"
                /\ (jstate = "finished" /\ abandoned = AS_OK) =>
                        n_succeeded = Least(sample_max, Population({"ok"}))
            /\ (sample_max = 0 /\ sample_pct # 100) =>
                /\ sample_count = 0
                /\ \A w \in Workers :
                        pc[w] \in {"reduce", "cb"} => slice_limit[w] # 0
            /\ (sample_max = 0 /\ sample_pct = 100) =>
                /\ sample_count = 0
                /\ \A w \in Workers :
                    /\ slice_limit[w] = 0 /\ slice_count[w] = 0
                    /\ pc[w] = "cb" => tree[wpid[w]][pos[w]] # "tomb"
                /\ (jstate = "finished" /\ abandoned = AS_OK) =>
                        n_succeeded = Population({"ok"}))
    /\ [][cfgv' = cfgv]_vars

\* C14 witness: a request with SAMPLE_MAX 1 and sample_pct 50 over one
\* partition <<tombstone, live record>> finished having emitted the live
\* record, which a percent limit of 1 would have cut off.
C14_Witness ==
    /\ sample_max = 1 /\ sample_pct = 50
    /\ tree[0] = <<"tomb", "ok">>
    /\ \A p \in Pids \ {0} : tree[p] = NoTree
    /\ jstate = "finished" /\ abandoned = AS_OK
    /\ n_succeeded = 1 /\ sample_count = 1

\* All four job variants over every kind of index entry: partition 0 holds
\* any tree of one entry, or of two of which one is a live qualifying
\* record, the other partitions one live record or no tree; the request
\* names no set and has no predicate, or names a set and has one; a set
\* that does not exist gets past start only in a per-partition basic scan.
InitFilter ==
    /\ InitJob
    /\ type \in {SCAN_TYPE_BASIC, SCAN_TYPE_AGGR} \cup BgTypes
    /\ pids_given \in (IF type = SCAN_TYPE_BASIC THEN BOOLEAN ELSE {FALSE})
    /\ fail_on_cluster_change = FALSE
    /\ job_set \in {get_scan_set(f, x) :
                        f \in {"absent", "empty", "name"}, x \in BOOLEAN}
    /\ job_set = "unknown" => (type = SCAN_TYPE_BASIC /\ pids_given)
    /\ predexp = (type # SCAN_TYPE_AGGR /\ job_set # "none")
    /\ no_bin_data = FALSE
    /\ sample_pct = 100 /\ sample_max = 0 /\ max_per_partition = 0
    /\ tree \in [Pids -> Trees(RecKinds)]
    /\ \A p \in Pids \ {0} : tree[p] \in {NoTree, <<"ok">>}
    /\ Len(tree[0]) >= 2 => \E i \in 1..Len(tree[0]) : tree[0][i] = "ok"
    /\ InitRequest

NextFilter ==
    \/ conn_scan_job_start
    \/ bg_scan_job_start
    \/ \E w \in Workers : SliceStep(w) \/ BgSliceStep(w)
    \/ conn_scan_job_finish
    \/ as_msg_send_fin_timeout
    \/ conn_scan_job_finish_stat
    \/ bg_scan_tr_complete_decr
    \/ bg_scan_tr_complete_switch
    \/ bg_scan_job_finish
    \/ as_scan_job_destroy
    \/ as_scan_manager_abort_job

SpecFilter == InitFilter /\ [][NextFilter]_vars

\* Number of times an item is among those the client has received.
WireCount(item) ==
    Cardinality({e \in WirePositions : wire[e[1]][2][e[2]] = item})

\* An index entry that is a live, non-doomed record of the job's set
\* which the job's predicate accepts and whose bins load.
Qualifies(r) ==
    /\ r \notin {"tomb", "doomed", "unread"}
    /\ job_set = "known" => r # "xset"
    /\ predexp => r \notin {"metaF", "binF"}

\* Qualifying entries of the partitions this node masters.
QualifyingEntries ==
    {e \in Pids \X (1..MaxRecs) :
        /\ tree[e[1]] # NoTree
        /\ e[2] <= Len(tree[e[1]])
        /\ Qualifies(tree[e[1]][e[2]])}

\* C15: when a basic job with no sampling, over an existing set or the
\* whole namespace, has finished not abandoned (so every chunk send
\* succeeded), the client has received every qualifying record of every
\* partition exactly once and no other record, and n_succeeded is their
\* number.
C15_FullScanEmitsEach ==
    (/\ type = SCAN_TYPE_BASIC /\ job_set # "unknown"
     /\ max_per_partition = 0 /\ sample_pct = 100
     /\ jstate \in {"finished", "destroyed"} /\ abandoned = AS_OK) =>
        /\ \A e \in Pids \X (1..MaxRecs) :
                WireCount(RecItem(e[1], e[2])) =
                    IF e \in QualifyingEntries THEN 1 ELSE 0
        /\ n_succeeded = Cardinality(QualifyingEntries)

\* C15 witness: a basic job with a set filter finished not abandoned over
\* a partition <<record of another set, qualifying record>> and a
\* partition of one qualifying record, having emitted two records.
C15_Witness ==
    /\ type = SCAN_TYPE_BASIC /\ job_set = "known"
    /\ jstate = "finished" /\ abandoned = AS_OK
    /\ tree[0] = <<"xset", "ok">>
    /\ \A p \in Pids \ {0} : tree[p] = <<"ok">>
    /\ n_succeeded = NPids
    /\ WireCount(RecItem(0, 2)) = 1 /\ WireCount(RecItem(0, 1)) = 0

\* Worker w's callback, returning in this step, hands its record on: a
\* basic job serializes it into the response buffer, an aggregation job
\* adds its digest to the list, a background job goes on to enqueue its
\* sub-transaction.
HandsOn(w) ==
    /\ pc[w] = "cb" /\ pc'[w] # "cb"
    /\ \/ Len(bb'[w]) = Len(bb[w]) + 1
       \/ ll'[w] = ll[w] + 1
       \/ pc'[w] = "bg_wait"

\* C16: in every job variant a callback hands on only a record that is not
\* doomed and, when the job has a set filter, is of the job's set; with no
\* set filter a record of any set is handed on (unless adding its digest
\* fails, which ends the slice); and every record the client has received
\* is such a record.
C16_SetAndDoomedFilter ==
    /\ [](\A e \in WirePositions :
            LET item == wire[e[1]][2][e[2]]
            IN  item[1] = "rec" =>
                    /\ tree[item[2]][item[3]] # "doomed"
                    /\ job_set # "none" => tree[item[2]][item[3]] # "xset")
    /\ [][\A w \in Workers :
            LET r == tree[wpid[w]][pos[w]]
            IN  /\ HandsOn(w) =>
                    /\ r # "doomed"
                    /\ job_set # "none" => (job_set = "known" /\ r # "xset")
                /\ (/\ pc[w] = "cb" /\ pc'[w] # "cb"
                    /\ job_set = "none" /\ r = "xset") =>
                        (HandsOn(w) \/ pc'[w] = "aggr_flush")]_vars

\* C16 witness: a background job with a set filter skipped a record of
\* another set and is about to enqueue the sub-transaction of the record
\* of its set that follows.
C16_Witness ==
    /\ type \in BgTypes /\ job_set = "known"
    /\ tree[0] = <<"xset", "ok">>
    /\ \E w \in Workers :
            pc[w] = "bg_enqueue" /\ wpid[w] = 0 /\ pos[w] = 2
    /\ n_enqueued = 0

\* The sum of the job's four counters.
Counted == n_succeeded + n_failed + n_filtered_meta + n_filtered_bins

\* Callbacks that in this step get past their entry tests with a record
\* the iteration handed them: records observed.
Observing ==
    Cardinality({w \in Workers : pc[w] = "reduce" /\ pc'[w] = "cb"})

\* Index entries of the partitions whose slices have been handed out.
EntriesHandedOut ==
    Cardinality({e \in Pids \X (1..MaxRecs) :
                    /\ e[1] \notin todo
                    /\ tree[e[1]] # NoTree
                    /\ e[2] <= Len(tree[e[1]])})

\* C17: the sum of the four counters never exceeds the number of records
\* the callbacks have observed: an observed record is pending (in its
\* callback or, for a background job, in its sub-transaction) until at most
\* one counter is incremented for it, once; so counted plus pending grows
\* only by the records observed, and is at most the number of index
\* entries of the partitions handed out.
C17_CountedAtMostObserved ==
    /\ [](Counted + Pending <= EntriesHandedOut)
    /\ [][/\ Counted' + Pending' <= Counted + Pending + Observing
          /\ Counted' <= Counted + 1
          /\ n_succeeded' >= n_succeeded /\ n_failed' >= n_failed
          /\ n_filtered_meta' >= n_filtered_meta
          /\ n_filtered_bins' >= n_filtered_bins]_vars

\* C17 witness: a background job finished over <<doomed record, live
\* record>> and <<live record>>: three records observed, two counted.
C17_Witness ==
    /\ type \in BgTypes
    /\ tree[0] = <<"doomed", "ok">>
    /\ \A p \in Pids \ {0} : tree[p] = <<"ok">>
    /\ jstate = "finished" /\ abandoned = AS_OK
    /\ Counted = NPids /\ Pending = 0

\* C18: a reduce callback of any job variant that has returned has released
\* the index reference it was handed exactly once, and has closed exactly
\* once the storage handle it opened: a worker holds one reference while
\* it is inside a callback and none otherwise, and no storage handle is
\* open outside a callback.
C18_RecordDoneOnce ==
    \A w \in Workers :
        /\ r_ref[w] = (IF pc[w] = "cb" THEN 1 ELSE 0)
        /\ rd_open[w] = 0

\* C18 witness: a basic job with a predicate finished after callbacks left
\* on the bin-predicate path and on the success path, the storage handle
\* opened and closed on both.
C18_Witness ==
    /\ type = SCAN_TYPE_BASIC /\ predexp
    /\ tree[0] = <<"binF", "ok">>
    /\ jstate = "finished"
    /\ n_filtered_bins = 1 /\ n_succeeded >= 1
    /\ \A w \in Workers : r_ref[w] = 0 /\ rd_open[w] = 0

\* C19: when the manager refuses a streaming job, start has disowned the
\* fd and returns the manager's error: the job is destroyed without any
\* slice or finish having run, the socket has been neither written to nor
\* closed and is still attached to the transaction; and nothing happens to
\* the job afterwards.
C19_RefusedStreamingStart ==
    /\ []((type \in {SCAN_TYPE_BASIC, SCAN_TYPE_AGGR}
                /\ start_result \notin {"none", AS_OK}) =>
            /\ jstate = "rejected" /\ disowned
            /\ start_result = "AS_ERR_FORBIDDEN"
            /\ sock = "open" /\ wire = <<>> /\ writers = {}
            /\ n_release = 0 /\ ~force_closed /\ ~fin_sent
            /\ ~use_after_release
            /\ tr_proto_fd_h
            /\ todo = {} /\ \A w \in Workers : pc[w] = "idle"
            /\ ns_stat = NsStatZero
            /\ Counted = 0)
    /\ [](jstate = "rejected" <=> start_result \notin {"none", AS_OK})
    /\ [][jstate = "rejected" => vars' = vars]_vars

\* C19 witness: a basic job the manager refused.
C19_Witness ==
    /\ type = SCAN_TYPE_BASIC
    /\ jstate = "rejected" /\ start_result = "AS_ERR_FORBIDDEN"
    /\ fd_h /\ disowned /\ sock = "open" /\ tr_proto_fd_h

\* C20: a background start that the manager admits sends a fin with OK on
\* the originating socket (or, when that fails, force-closes the socket
\* with nothing sent), detaches the socket from the transaction and
\* returns OK, and the job runs in both cases; one that the manager refuses
\* sends nothing, leaves the socket open and attached, destroys the job
\* without any slice having run and returns the manager's error.
C20_BackgroundStart ==
    /\ [](type \in BgTypes =>
            /\ start_result = "none" <=> jstate = "new"
            /\ start_result = AS_OK =>
                /\ ~tr_proto_fd_h
                /\ jstate \in {"active", "finished", "destroyed"}
                /\ \/ sock = "released" /\ wire = <<(<<"fin", AS_OK>>)>>
                   \/ sock = "closed" /\ wire = <<>>
            /\ start_result \notin {"none", AS_OK} =>
                /\ start_result = "AS_ERR_FORBIDDEN"
                /\ jstate = "rejected"
                /\ sock = "open" /\ wire = <<>> /\ tr_proto_fd_h
                /\ todo = {} /\ \A w \in Workers : pc[w] = "idle"
                /\ Counted = 0 /\ n_enqueued = 0
                /\ ns_stat = NsStatZero)
    /\ [][/\ (type \in BgTypes /\ jstate = "rejected") => vars' = vars
          /\ (type \in BgTypes /\ jstate # "new") =>
                (sock' = sock /\ wire' = wire)
         ]_vars

\* C20 witness: a background job whose fin could not be sent (socket
\* force-closed, nothing on the wire) ran and finished with a record
\* succeeded.
C20_Witness ==
    /\ type \in BgTypes
    /\ start_result = AS_OK /\ ~tr_proto_fd_h
    /\ sock = "closed" /\ wire = <<>>
    /\ jstate = "finished" /\ n_succeeded > 0

\* C21: every finished job has incremented exactly one namespace counter,
\* by one, in the step that finished it: the counter of its own variant
\* that its abandonment code selects (complete for 0, abort for
\* USER_ABORT, error for any other code); no counter moves before that or
\* after it, and a streaming job increments it only once its fd is released
\* (fin sent, send failed or send skipped).
StatTotal(st) ==
    LET RECURSIVE Sum(_)
        Sum(S) == IF S = {} THEN 0
                  ELSE LET k == CHOOSE x \in S : TRUE
                       IN  st[k] + Sum(S \ {k})
    IN  Sum(ScanTypes \X StatKinds)

StatKindOf(code) ==
    CASE code = AS_OK -> "complete"
      [] code = AS_SCAN_ERR_USER_ABORT -> "abort"
      [] OTHER -> "error"

C21_OneCounterPerJob ==
    /\ [](StatTotal(ns_stat) =
              IF jstate \in {"finished", "destroyed"} THEN 1 ELSE 0)
    /\ [][ns_stat' # ns_stat =>
            /\ jstate # "finished" /\ jstate' = "finished"
            /\ \A k \in ScanTypes \X StatKinds :
                  ns_stat'[k] = ns_stat[k] +
                      (IF k = <<type, StatKindOf(abandoned)>> THEN 1 ELSE 0)
            /\ type \in {SCAN_TYPE_BASIC, SCAN_TYPE_AGGR} =>
                  /\ ~fd_h /\ sock \in {"released", "closed"}
                  /\ n_release = 1
                  /\ MGR \notin writers]_vars

\* C21 witness: an aggregation job that the user aborted has finished and
\* counted as an abort of the aggregation variant.
C21_Witness ==
    /\ type = SCAN_TYPE_AGGR /\ jstate = "finished"
    /\ abandoned = AS_SCAN_ERR_USER_ABORT
    /\ ns_stat[<<SCAN_TYPE_AGGR, "abort">>] = 1
    /\ ~fd_h /\ fin_sent

\* The start function has returned without the job having reached the
\* manager: no job is active or was refused by the manager, nothing was
\* sent, and the socket is open and still the transaction's.
NotAdmitted ==
    /\ jstate \in {"new", "destroyed"} /\ todo = {}
    /\ wire = <<>> /\ sock = "open" /\ tr_proto_fd_h
    /\ ~fd_h /\ ~fin_sent /\ n_release = 0
    /\ origin_msgp = NoMsg

OpsBgUnfit == tr_msg.info1_read \/ tr_msg.n_ops = 0

\* C22 as stated: a background-ops request with the READ bit set or with no
\* ops is rejected by start with PARAMETER, with no job handed to the
\* manager, no fin sent and the socket left with the transaction.
C22_UnfitOpsParameter ==
    (type = SCAN_TYPE_OPS_BG /\ OpsBgUnfit /\ start_result # "none") =>
        (start_result = AS_ERR_PARAMETER /\ NotAdmitted)

\* C22 amended: such a request is never handed to the manager, gets no fin
\* and leaves the socket with the transaction; start returns NOT_FOUND when
\* the request names a set that does not exist and its fields are well
\* formed (that test comes before the test of the ops), and PARAMETER in
\* every other case.
C22_UnfitOpsRejected ==
    /\ []((type = SCAN_TYPE_OPS_BG /\ OpsBgUnfit /\ start_result # "none")
            => /\ NotAdmitted /\ jstate = "new"
               /\ start_result =
                     IF /\ tr_msg.set_field = "name" /\ ~tr_msg.set_exists
                        /\ tr_msg.bad_field = "none"
                     THEN AS_ERR_NOT_FOUND ELSE AS_ERR_PARAMETER)
    /\ [][(type = SCAN_TYPE_OPS_BG /\ OpsBgUnfit) =>
            (start_result' # "none" /\ jstate' = "new")]_vars

\* C22 witness: a request that is well formed but for its READ bit was
\* rejected with PARAMETER.
C22_Witness ==
    /\ type = SCAN_TYPE_OPS_BG
    /\ tr_msg.info1_read /\ tr_msg.n_ops = 1
    /\ tr_msg.set_field = "name" /\ tr_msg.set_exists
    /\ tr_msg.bad_field = "none" /\ tr_msg.predexp_field = "ok"
    /\ tr_msg.rps = 100
    /\ start_result = AS_ERR_PARAMETER /\ NotAdmitted

\* C23 as stated: the sub-transaction template that background-ops start
\* builds has WRITE set and has each of DURABLE_DELETE, UPDATE_ONLY and
\* REPLACE_ONLY set if and only if the request has it set.
C23_FlagsCarriedOver ==
    (type = SCAN_TYPE_OPS_BG /\ origin_msgp # NoMsg) =>
        /\ origin_msgp.info2_write
        /\ origin_msgp.info2_durable_delete = tr_msg.info2_durable_delete
        /\ origin_msgp.info3_update_only = tr_msg.info3_update_only
        /\ origin_msgp.info3_replace_only = tr_msg.info3_replace_only

\* C23 amended: the template has WRITE and UPDATE_ONLY set whatever the
\* request says, and has DURABLE_DELETE and REPLACE_ONLY set if and only if
\* the request has them set; it is built exactly when start gets as far as
\* the manager.
C23_TemplateFlags ==
    /\ type = SCAN_TYPE_OPS_BG =>
          (origin_msgp # NoMsg <=>
               jstate \in {"active", "rejected"})
    /\ (type = SCAN_TYPE_OPS_BG /\ origin_msgp # NoMsg) =>
          /\ origin_msgp.info2_write
          /\ origin_msgp.info3_update_only
          /\ origin_msgp.info2_durable_delete = tr_msg.info2_durable_delete
          /\ origin_msgp.info3_replace_only = tr_msg.info3_replace_only

\* C23 witness: an admitted background-ops job whose request had
\* REPLACE_ONLY and DURABLE_DELETE but not UPDATE_ONLY.
C23_Witness ==
    /\ type = SCAN_TYPE_OPS_BG /\ jstate = "active"
    /\ ~tr_msg.info3_update_only /\ tr_msg.info3_replace_only
    /\ tr_msg.info2_durable_delete
    /\ origin_msgp.info3_update_only /\ origin_msgp.info3_replace_only
    /\ origin_msgp.info2_durable_delete /\ origin_msgp.info2_write

\* C24 as stated: aggregation start returns FORBIDDEN when UDF execution is
\* disabled, as does background-udf start, and returns UNSUPPORTED_FEATURE
\* when the request carries a predicate filter; in neither case is the
\* socket adopted or the manager called.
C24_AggrForbiddenOrUnsupported ==
    /\ (type \in {SCAN_TYPE_AGGR, SCAN_TYPE_UDF_BG}
            /\ ns_cfg.udf_execution_disabled /\ start_result # "none") =>
          (start_result = AS_ERR_FORBIDDEN /\ NotAdmitted)
    /\ (type = SCAN_TYPE_AGGR /\ ~ns_cfg.udf_execution_disabled
            /\ tr_msg.predexp_field # "absent" /\ start_result # "none") =>
          (start_result = AS_ERR_UNSUPPORTED_FEATURE /\ NotAdmitted)

\* C24 amended: with UDF execution disabled, aggregation start and
\* background-udf start return FORBIDDEN; an aggregation request with a
\* predicate filter is otherwise refused with PARAMETER when a field it
\* reads is malformed, else with NOT_FOUND when its set does not exist,
\* else with UNSUPPORTED_FEATURE; in all these cases no job is built, the
\* socket is not adopted and the manager is not called.
C24_AggrNeverAdmitted ==
    /\ []((type \in {SCAN_TYPE_AGGR, SCAN_TYPE_UDF_BG}
              /\ ns_cfg.udf_execution_disabled /\ start_result # "none") =>
            (start_result = AS_ERR_FORBIDDEN /\ NotAdmitted
                 /\ jstate = "new"))
    /\ []((type = SCAN_TYPE_AGGR /\ ~ns_cfg.udf_execution_disabled
              /\ tr_msg.predexp_field # "absent" /\ start_result # "none")
            => /\ NotAdmitted /\ jstate = "new"
               /\ start_result =
                     IF \/ tr_msg.set_field = "toolong"
                        \/ tr_msg.bad_field \in {"options", "rps", "timeout"}
                     THEN AS_ERR_PARAMETER
                     ELSE IF tr_msg.set_field = "name" /\ ~tr_msg.set_exists
                     THEN AS_ERR_NOT_FOUND
                     ELSE AS_ERR_UNSUPPORTED_FEATURE)
    /\ [][(\/ (type \in {SCAN_TYPE_AGGR, SCAN_TYPE_UDF_BG}
                   /\ ns_cfg.udf_execution_disabled)
            \/ (type = SCAN_TYPE_AGGR /\ tr_msg.predexp_field # "absent"))
           => (start_result' # "none" /\ jstate' = "new"
                   /\ fd_h' = fd_h /\ sock' = sock)]_vars

\* C24 witness: an aggregation request with a predicate that would build,
\* on a node that allows UDFs, was refused with UNSUPPORTED_FEATURE.
C24_Witness ==
    /\ type = SCAN_TYPE_AGGR /\ ~ns_cfg.udf_execution_disabled
    /\ tr_msg.predexp_field = "ok" /\ tr_msg.set_field = "name"
    /\ tr_msg.set_exists /\ tr_msg.def_ok
    /\ start_result = AS_ERR_UNSUPPORTED_FEATURE /\ NotAdmitted

\* C25: aggregation start rejects a request that carries a PID_ARRAY or a
\* DIGEST_ARRAY field: such a request is never admitted as a job.
C25_AggrRejectsPids ==
    (type = SCAN_TYPE_AGGR /\ tr_msg.pids_field # "absent"
        /\ start_result # "none") =>
        (start_result # AS_OK /\ jstate # "active")

\* The rps a request asks for: the RECS_PER_SEC field, where 0 stands for no
\* limit in a streaming scan and for the namespace's cap in a background
\* scan.
RpsAskedFor ==
    IF type \in BgTypes /\ tr_msg.rps = 0
    THEN ns_cfg.background_scan_max_rps ELSE tr_msg.rps

\* C26: whatever the scan type, a job built from a request with old-client
\* priority 1 and no rps runs with rps 5000, and one built from a request
\* with priority 0 or with an rps runs with the rps it asked for.
C26_OldPriorityRps ==
    (start_result # "none" /\ jstate \in {"active", "rejected"}) =>
        /\ (tr_msg.priority = 1 /\ tr_msg.rps = 0) =>
              job_rps = LOW_PRIORITY_RPS
        /\ (tr_msg.priority = 0 \/ tr_msg.rps # 0) =>
              job_rps = RpsAskedFor

\* Basic scans of a named set that exists or does not, legacy or
\* per-partition, over partitions holding records of that set and of
\* others.
InitUnknownSet ==
    /\ InitJob
    /\ type = SCAN_TYPE_BASIC
    /\ tr_msg \in {[PlainMsg EXCEPT !.set_field = "name", !.set_exists = x,
                                    !.pids_field = f, !.info1_read = TRUE] :
                       x \in BOOLEAN, f \in {"absent", "pids"}}
    /\ ns_cfg = [udf_execution_disabled |-> FALSE,
                 background_scan_max_rps |-> 10000, migrating |-> FALSE]
    /\ pids_given = (tr_msg.pids_field # "absent")
    /\ fail_on_cluster_change = FALSE
    /\ job_set = get_scan_set(tr_msg.set_field, tr_msg.set_exists)
    /\ predexp = FALSE /\ no_bin_data = FALSE
    /\ sample_pct = 100 /\ sample_max = 0 /\ max_per_partition = 0
    /\ tree \in [Pids -> Trees({"ok", "xset"})]

BasicSliceStep(w) ==
    \/ Dispatch(w)
    \/ basic_scan_job_slice(w)
    \/ basic_scan_job_reduce(w)
    \/ basic_scan_job_reduce_cb(w)
    \/ basic_scan_job_slice_end(w)
    \/ conn_scan_job_send_response(w)
    \/ send_blocking_response_chunk(w)
    \/ conn_scan_job_send_abandon(w)

NextUnknownSet ==
    \/ basic_scan_job_start
    \/ \E w \in Workers : BasicSliceStep(w)
    \/ conn_scan_job_finish
    \/ as_msg_send_fin_timeout
    \/ conn_scan_job_finish_stat
    \/ as_scan_job_destroy
    \/ as_scan_manager_abort_job

SpecUnknownSet == InitUnknownSet /\ [][NextUnknownSet]_vars

\* Items in the buffers of the running slices and on the wire that are
\* records.
RecItemsAbout ==
    Cardinality({e \in WirePositions : wire[e[1]][2][e[2]][1] = "rec"})
        + Cardinality({<<w, j>> \in Workers \X (1..MaxRecs + 1) :
                          j <= Len(bb[w]) /\ bb[w][j][1] = "rec"})

\* C27: for a basic scan whose set name does not resolve, a legacy request
\* is refused by start with NOT_FOUND and no job is ever admitted; a
\* per-partition request gets to the manager, and every slice of a
\* partition with a tree hands send_response exactly one buffer, holding
\* the per-pid-done marker with OK of that partition and nothing else, and
\* returns: no record is visited, counted or sent, no partition gets two
\* markers, and a job that finishes without having been abandoned has put
\* the marker of each partition with a tree on the wire.
C27_UnknownSet ==
    /\ []((job_set = "unknown" /\ ~pids_given /\ start_result # "none") =>
            (start_result = AS_ERR_NOT_FOUND /\ NotAdmitted
                 /\ jstate = "new"))
    /\ []((job_set = "unknown" /\ pids_given) =>
            /\ start_result \in {"none", AS_OK, AS_ERR_FORBIDDEN}
            /\ start_result = AS_ERR_FORBIDDEN => jstate = "rejected"
            /\ RecItemsAbout = 0 /\ Counted = 0
            /\ \A w \in Workers :
                  pc[w] \notin {"reduce", "cb", "slice_end"}
            /\ \A q \in Pids :
                  /\ WireCount(PidDoneItem(q, AS_OK)) <=
                        (IF tree[q] = NoTree THEN 0 ELSE 1)
                  /\ (jstate = "finished" /\ abandoned = AS_OK
                          /\ tree[q] # NoTree) =>
                        WireCount(PidDoneItem(q, AS_OK)) = 1)
    /\ [][job_set = "unknown" =>
            /\ ~pids_given => (jstate' = "new" /\ start_result' # "none")
            /\ \A w \in Workers :
                  (pc[w] = "slice" /\ pc'[w] # "slice"
                      /\ tree[wpid[w]] # NoTree) =>
                    /\ bb'[w] = <<PidDoneItem(wpid[w], AS_OK)>>
                    /\ pc'[w] = "send" /\ ret'[w] = "end"]_vars

\* C27 witness: a per-partition scan of a set that does not exist, over two
\* partitions that hold live records, has finished; the client received
\* the two markers and the fin, and no record.
C27_Witness ==
    /\ job_set = "unknown" /\ pids_given
    /\ tree[0] = <<"ok", "xset">> /\ tree[1] = <<"ok">>
    /\ jstate = "finished" /\ abandoned = AS_OK /\ fin_sent
    /\ WireCount(PidDoneItem(0, AS_OK)) = 1
    /\ WireCount(PidDoneItem(1, AS_OK)) = 1
    /\ Len(wire) = 3 /\ RecItemsAbout = 0 /\ Counted = 0

\* The records of partition q that a scan of the job's set delivers.
SetRecs(q) ==
    IF tree[q] = NoTree THEN 0
    ELSE Cardinality({i \in 1..Len(tree[q]) :
                         ~(job_set = "known" /\ tree[q][i] = "xset")})

\* Worker w takes a step of the slice of a partition without a tree.
TreelessStep(w) ==
    /\ pc[w] \in {"slice", "send", "send_write", "send_abandon"}
    /\ tree[wpid[w]] = NoTree
    /\ pc'[w] # pc[w]

C29_ReleasedBeforeWaiting ==
    /\ [](type \in BgTypes =>
            \A w \in Workers :
                /\ r_ref[w] \in {0, 1} /\ rd_open[w] = 0
                /\ pc[w] \in {"bg_wait", "bg_enqueue", "bg_push"}
                      => r_ref[w] = 0
                /\ r_ref[w] = 1 => pc[w] = "cb")
    /\ [][(type \in BgTypes
              /\ (n_enqueued' # n_enqueued \/ n_active_tr' > n_active_tr
                      \/ tr_queue' > tr_queue)) =>
            \E w \in Workers :
                /\ pc[w] \in {"bg_enqueue", "bg_push"} /\ pc'[w] # pc[w]
                /\ r_ref[w] = 0 /\ r_ref'[w] = 0]_vars

\* C29 witness: a callback is held up in its wait, with more
\* sub-transactions in flight than the limit, and holds no reference.
C29_Witness ==
    /\ type \in BgTypes
    /\ \E w \in Workers :
          /\ pc[w] = "bg_wait" /\ n_active_tr > MaxActive
          /\ r_ref[w] = 0 /\ pos[w] > 0
    /\ n_enqueued >= 2

\* The item at a position of the wire, and the order of the positions.
WireItem(e) == wire[e[1]][2][e[2]]

WireBefore(e1, e2) ==
    e1[1] < e2[1] \/ (e1[1] = e2[1] /\ e1[2] < e2[2])

\* C30: the records of one partition of a basic scan are on the wire in
\* the order in which the index iteration visited them, within a chunk and
\* across the chunks of the slice, none twice; the records still in the
\* slice's buffer come after those on the wire, in order too; and nothing
\* of a partition comes after its per-pid-done marker.
C30_PartitionOrder ==
    type = SCAN_TYPE_BASIC =>
        /\ \A e1, e2 \in WirePositions :
              (WireBefore(e1, e2) /\ WireItem(e1)[2] = WireItem(e2)[2]) =>
                  /\ WireItem(e1)[1] = "rec"
                  /\ WireItem(e2)[1] = "rec" =>
                        WireItem(e1)[3] < WireItem(e2)[3]
        /\ \A w \in Workers :
              \A j \in 1..Len(bb[w]) :
                  /\ bb[w][j][2] = wpid[w]
                  /\ bb[w][j][1] = "pid_done" => j = Len(bb[w])
                  /\ \A k \in 1..(j - 1) :
                        bb[w][j][1] = "rec" => bb[w][k][3] < bb[w][j][3]
                  /\ bb[w][j][1] = "rec"
                        => \A e \in WirePositions :
                               WireItem(e)[2] = wpid[w] =>
                                   /\ WireItem(e)[1] = "rec"
                                   /\ WireItem(e)[3] < bb[w][j][3]

\* C30 witness: the ten records of a partition reached the client in more
\* than two chunks, followed by the marker of the partition.
C30_Witness ==
    /\ type = SCAN_TYPE_BASIC /\ pids_given
    /\ jstate = "finished" /\ abandoned = AS_OK
    /\ WireRecs(0) = BudgetRecs
    /\ WireCount(PidDoneItem(0, AS_OK)) = 1
    /\ Cardinality({e[1] : e \in {x \in WirePositions :
                                      WireItem(x)[2] = 0}}) > 2

\* Records in the response buffers of the running slices, and records the
\* client has received.
BufferedRecs ==
    {x \in Workers \X (1..(MaxRecs + 1)) :
        x[2] <= Len(bb[x[1]]) /\ bb[x[1]][x[2]][1] = "rec"}

WireRecPositions == {e \in WirePositions : WireItem(e)[1] = "rec"}

\* C31: a basic slice hands its buffer to send_response only right after
\* the callback added a record that took the buffer over SCAN_CHUNK_LIMIT,
\* or at the end of the slice with payload in the buffer; a successful
\* send from the callback puts the buffer on the wire and empties it; no
\* record is on the wire twice; and as long as no send has failed (the
\* job still owns the fd, or the fin went out), every record serialized is
\* on the wire once or still in its slice's buffer.
C31_ChunkOnce ==
    /\ [][type = SCAN_TYPE_BASIC =>
            \A w \in Workers :
                /\ (pc[w] # "send" /\ pc'[w] = "send") =>
                       \/ (/\ pc[w] = "cb" /\ ret'[w] = "cb"
                           /\ Len(bb'[w]) > ChunkItems
                           /\ bb'[w] = Append(bb[w],
                                              RecItem(wpid[w], pos[w])))
                       \/ (/\ pc[w] \in {"slice", "slice_end"}
                           /\ ret'[w] = "end"
                           /\ bb'[w] # <<>>)
                /\ (pc[w] = "send_write" /\ ret[w] = "cb"
                        /\ pc'[w] = "reduce") =>
                       /\ wire' = Append(wire, <<"chunk", bb[w]>>)
                       /\ bb'[w] = <<>>
        ]_vars
    /\ [](type = SCAN_TYPE_BASIC =>
            /\ \A e \in Pids \X (1..MaxRecs) :
                    WireCount(RecItem(e[1], e[2])) <= 1
            /\ ((jstate = "active" /\ fd_h) \/ fin_sent) =>
                    Cardinality(WireRecPositions)
                        + Cardinality(BufferedRecs) = n_succeeded)

\* C31 witness: a legacy basic scan sent the two records of partition 0
\* in one chunk from the callback, the buffer was reset (the end of the
\* slice sent nothing more of partition 0), and the job finished with the
\* fin sent.
C31_Witness ==
    /\ type = SCAN_TYPE_BASIC /\ ~pids_given
    /\ fin_sent /\ jstate = "finished"
    /\ \E k \in 1..Len(wire) :
           wire[k] = <<"chunk", <<RecItem(0, 1), RecItem(0, 2)>>>>
    /\ WireRecs(0) = 2

\* Slices that have counted a sub-transaction in and not yet handed it to
\* the transaction service.
CountedNotEnqueued == Cardinality({w \in Workers : pc[w] = "bg_push"})

\* C32: n_active_tr of a background job is the number of sub-transactions
\* enqueued whose completion callback has not run yet, plus those a
\* callback has counted and is about to enqueue; it is never negative and
\* never above MAX_ACTIVE_TRANSACTIONS plus the number of worker threads.
C32_ActiveTransactions ==
    type \in BgTypes =>
        /\ n_active_tr = tr_queue + CountedNotEnqueued
        /\ n_active_tr >= 0
        /\ n_active_tr <= MaxActive + NWorkers

\* C32 witness: every worker read n_active_tr at the limit and enqueued
\* one more, so that MAX_ACTIVE_TRANSACTIONS + W sub-transactions are in
\* flight, none completed.
C32_Witness ==
    /\ type \in BgTypes
    /\ n_active_tr = MaxActive + NWorkers
    /\ tr_queue = n_active_tr /\ n_enqueued = tr_queue

\* C33: when basic_scan_job_start has returned without admitting the job,
\* the array that get_scan_pids allocated (if any) has been freed exactly
\* once.
C33_PidsFreedOnRefusal ==
    (type = SCAN_TYPE_BASIC /\ start_result \notin {"none", AS_OK}) =>
        pids_frees = get_scan_pids_allocs(type, tr_msg)

\* Worker w's send_response returns false in this step: it found the fd
\* released, or its own write had failed.
ReturnsFalseNoFd(w) == pc[w] = "send" /\ pc'[w] \notin {"send", "send_write"}

ReturnsFalseOwnWrite(w) ==
    pc[w] = "send_abandon" /\ pc'[w] # "send_abandon"

\* Worker w's basic slice goes on iterating with the buffer that a failed
\* send from the callback left unsent.
AfterFailedSend(w) ==
    type = SCAN_TYPE_BASIC /\ pc[w] = "reduce" /\ over_chunk_limit(bb[w])

\* Another slice's write failed and it has released the fd and fd_lock,
\* but not called abandon_job yet.
OtherAboutToAbandon(w) ==
    \E w2 \in Workers \ {w} : pc[w2] = "send_abandon"

C35_BackgroundJobTerminates ==
    /\ \A w \in Workers : (pc[w] = "bg_wait") ~> (pc[w] # "bg_wait")
    /\ (n_active_tr > 0) ~> (n_active_tr = 0)
    /\ (jstate = "active") ~> (jstate = "finished")

\* C35 witness: finish has returned on a background job that was aborted
\* after it had enqueued more sub-transactions than the limit, all of
\* which have completed.
C35_Witness ==
    /\ type \in BgTypes /\ jstate = "finished"
    /\ n_enqueued > MaxActive /\ n_active_tr = 0
    /\ abandoned = AS_SCAN_ERR_USER_ABORT

\* Worker w's write, succeeding in this step, puts the per-pid-done marker
\* of its partition with AS_OK on the wire.
SendsDoneOk(w) ==
    /\ pc[w] = "send_write" /\ wire' = Append(wire, <<"chunk", bb[w]>>)
    /\ bb[w] # <<>>
    /\ bb[w][Len(bb[w])] = PidDoneItem(wpid[w], AS_OK)

\* C36 as stated: in a per-partition basic scan with no sampling, the
\* per-pid-done marker of a partition goes on the wire with AS_OK only
\* when the slice's iteration was not stopped by abandonment, that is
\* when no entry of the partition was left unvisited.
C36_DoneOkOnlyIfNotCutShort ==
    [][\A w \in Workers :
          (/\ type = SCAN_TYPE_BASIC /\ pids_given
           /\ max_per_partition = 0 /\ sample_pct = 100
           /\ SendsDoneOk(w)) =>
              NextIdx(tree[wpid[w]], pos[w], BasicLiveOnly) = 0
      ]_vars

\* C36: in a per-partition basic scan every slice that gets to its end
\* appends the per-pid-done marker of its partition with AS_OK and sends
\* the buffer, whether or not abandonment stopped its iteration; when no
\* send failed (the fin went out), the client has received for every
\* partition exactly one marker, UNAVAILABLE without a tree and AS_OK
\* otherwise, also from an abandoned job.
C36_DoneOkAlsoWhenCutShort ==
    /\ [][\A w \in Workers :
            (/\ type = SCAN_TYPE_BASIC /\ pids_given
             /\ pc[w] = "slice_end" /\ pc'[w] # "slice_end") =>
                /\ pc'[w] = "send"
                /\ bb'[w] = Append(bb[w], PidDoneItem(wpid[w], AS_OK))
        ]_vars
    /\ []((type = SCAN_TYPE_BASIC /\ pids_given /\ fin_sent) =>
            \A p \in Pids :
                /\ WireCount(PidDoneItem(p, pid_done_result(tree[p]))) = 1
                /\ Cardinality({e \in WirePositions :
                                    /\ WireItem(e)[1] = "pid_done"
                                    /\ WireItem(e)[2] = p}) = 1)

\* C36 witness: a per-partition scan was aborted before the slice of
\* partition 0 had visited any of its two records; the client received
\* no record of partition 0, its marker with AS_OK, and the fin.
C36_Witness ==
    /\ type = SCAN_TYPE_BASIC /\ pids_given /\ fin_sent
    /\ abandoned = AS_SCAN_ERR_USER_ABORT
    /\ Len(tree[0]) = 2 /\ tree[0] # NoTree
    /\ WireRecs(0) = 0
    /\ WireCount(PidDoneItem(0, AS_OK)) = 1

\* The namespace counter of the job's variant that finish incremented.
CountedAs(kind) == ns_stat[<<type, kind>>] = 1

\* C37 as stated: when finish of a streaming job has sent the fin, the
\* namespace counter it incremented is the one that the code carried by
\* the fin selects.
C37_FinCodeSelectsCounter ==
    (type \in {SCAN_TYPE_BASIC, SCAN_TYPE_AGGR} /\ fin_sent
         /\ jstate \in {"finished", "destroyed"}) =>
        CountedAs(FinishStat(fin_code))

\* C37: when finish of a streaming job has sent the fin, a fin carrying a
\* non-zero code carries the job's abandoned value and the counter is the
\* one that code selects; a fin carrying 0 is paired with the complete
\* counter, or with the abort counter when abort_job set USER_ABORT
\* between the two reads of abandoned in finish, and never with the
\* error counter.
C37_FinCodeOrLaterAbort ==
    (type \in {SCAN_TYPE_BASIC, SCAN_TYPE_AGGR} /\ fin_sent
         /\ jstate \in {"finished", "destroyed"}) =>
        /\ StatTotal(ns_stat) = 1
        /\ CountedAs(FinishStat(abandoned))
        /\ fin_code # AS_OK => fin_code = abandoned
        /\ fin_code = AS_OK => abandoned \in {AS_OK, AS_SCAN_ERR_USER_ABORT}

\* C37 witness: a job finished with a fin carrying 0 and an abort count.
C37_Witness ==
    /\ type = SCAN_TYPE_BASIC /\ fin_sent /\ jstate = "finished"
    /\ fin_code = AS_OK /\ wire[Len(wire)] = <<"fin", AS_OK>>
    /\ abandoned = AS_SCAN_ERR_USER_ABORT
    /\ CountedAs("abort")

====
